---- MODULE Spec2Model ----
(***************************************************************************)
(* State-machine model of the sc360 FOA signal path:                       *)
(*   - FOABinauralDecoderProcessor (foa-binaural-decoder.worklet.ts)       *)
(*   - FOAEncoderProcessor         (foa-encoder.worklet.js)                *)
(*   - loadSOFAHRIRs and the built-in HRIR provider (hrirBuiltIn.ts)       *)
(*                                                                         *)
(* Numbers.  Audio samples, decode coefficients and filter taps are small  *)
(* integers, on which the IEEE arithmetic of the code is exact.  The one   *)
(* non-number a sample can become, NaN (a product with the `undefined`     *)
(* read past the end of a typed array), is kept as the value NaN.          *)
(* The decoder's 1/NUM_SPEAKERS output gain is kept as an exact fraction.  *)
(*                                                                         *)
(* Sizes.  The code is parametric in HRIR_LENGTH (128 in the source) and   *)
(* NUM_SPEAKERS (8 in the source); the model is checked at smaller tap and *)
(* speaker counts, which are raised to show nothing depends on them.       *)
(***************************************************************************)
EXTENDS Integers, Sequences, FiniteSets, TLC

\* ------------------------------------------------------------------ sizes
\* Taps per impulse response (source: 128) and virtual speakers (source: 8).
HRIR_LENGTH == 3
NUM_SPEAKERS == 2
\* Longest block handed to one process() call, samples decoded per run,
\* and 'setHRIR' messages delivered per run.
MaxBlock == 2
MaxSamples == 4
MaxMessages == 2

\* ------------------------------------------------------- float arithmetic
\* NaN: the result of arithmetic on `undefined`.  It is absorbing.
NaN == 0 - 1000000

FMul(a, b) == IF a = NaN \/ b = NaN THEN NaN ELSE a * b
FAdd(a, b) == IF a = NaN \/ b = NaN THEN NaN ELSE a + b

\* Typed-array read arr[i] with a 0-based index: `undefined` (NaN once used
\* in arithmetic) outside the array.  Arrays are sequences, element i at i+1.
At(arr, i) == IF i >= 0 /\ i < Len(arr) THEN arr[i + 1] ELSE NaN

\* new Float32Array(n): n zeros.
ZeroArray(n) == [i \in 1..n |-> 0]

\* Which registered processor class the modelled AudioWorkletProcessor instance
\* is: every instance owns its state and shares none with another.
VARIABLE proc

\* ---------------------------------------------------------------- decoder
VARIABLES
    hrirData,        \* flat [L0, R0, L1, R1, ...], each HRIR_LENGTH taps
    decodeMatrix,    \* flat [W, Y, Z, X] per speaker
    speakerBuffers,  \* one circular buffer per speaker (sequence of them)
    bufferIndex,     \* the shared cursor
    initialized,     \* a 'setHRIR' message has been received
    decOutput,       \* outputs[0] after the last process() call
    decCall,         \* the last handler that ran on the decoder, its arguments
    decHist,         \* every frame decoded so far, with the matrix in force
    decMsgs          \* 'setHRIR' messages delivered so far

decVars == <<hrirData, decodeMatrix, speakerBuffers, bufferIndex, initialized,
             decOutput, decCall, decHist, decMsgs>>

\* The constructor.
DecInit ==
    /\ hrirData = ZeroArray(NUM_SPEAKERS * 2 * HRIR_LENGTH)
    /\ decodeMatrix = ZeroArray(NUM_SPEAKERS * 4)
    /\ speakerBuffers = [i \in 1..NUM_SPEAKERS |-> ZeroArray(HRIR_LENGTH)]
    /\ bufferIndex = 0
    /\ initialized = FALSE
    /\ decOutput = <<>>
    /\ decCall = [op |-> "constructor"]
    /\ decHist = <<>>
    /\ decMsgs = 0

\* The correctly shaped payload: 8 * 2 * L HRIR floats, 8 * 4 matrix floats.
WellShaped(hrir, dm) ==
    /\ Len(hrir) = NUM_SPEAKERS * 2 * HRIR_LENGTH
    /\ Len(dm) = NUM_SPEAKERS * 4

SetHRIR_Validating(data) ==
    /\ hrirData' = data.hrirData
    /\ decodeMatrix' = data.decodeMatrix
    /\ initialized' = WellShaped(data.hrirData, data.decodeMatrix)

SetHRIR_Deferred(data) ==
    /\ hrirData' = data.hrirData
    /\ decodeMatrix' = data.decodeMatrix
    /\ initialized' = (decMsgs > 0)

\* The body of the 'setHRIR' branch: new Float32Array(...) copies of the
\* payload replace both arrays, and the flag is set.
SetHRIR(data) ==
    /\ hrirData' = data.hrirData
    /\ decodeMatrix' = data.decodeMatrix
    /\ initialized' = TRUE

\* port.onmessage: only a 'setHRIR' message is acted on.
OnMessage(data) ==
    /\ proc = "foa-binaural-decoder"
    /\ decMsgs < MaxMessages
    /\ decMsgs' = decMsgs + 1
    /\ IF data.type = "setHRIR"
          THEN SetHRIR(data)
          ELSE UNCHANGED <<hrirData, decodeMatrix, initialized>>
    /\ decCall' = [op |-> "message", data |-> data]
    /\ UNCHANGED <<speakerBuffers, bufferIndex, decOutput, decHist>>

\* speakerSignal = w * decW + y * decY + z * decZ + x * decX
SpeakerSignal_YZ(dm, spk, w, y, z, x) ==
    FAdd(FAdd(FAdd(FMul(w, At(dm, spk * 4 + 0)), FMul(z, At(dm, spk * 4 + 1))),
              FMul(y, At(dm, spk * 4 + 2))), FMul(x, At(dm, spk * 4 + 3)))

SpeakerSignal(dm, spk, w, y, z, x) ==
    LET decOffset == spk * 4
        decW == At(dm, decOffset + 0)
        decY == At(dm, decOffset + 1)
        decZ == At(dm, decOffset + 2)
        decX == At(dm, decOffset + 3)
    IN FAdd(FAdd(FAdd(FMul(w, decW), FMul(y, decY)), FMul(z, decZ)), FMul(x, decX))

BufIdx_Forward(cursor, k) == (cursor + k) % HRIR_LENGTH

\* let bufIdx = this.bufferIndex - k; if (bufIdx < 0) bufIdx += HRIR_LENGTH;
BufIdx(cursor, k) ==
    LET b == cursor - k IN IF b < 0 THEN b + HRIR_LENGTH ELSE b

\* The tap loop for one ear: acc += buffer[bufIdx] * hrir[base + k], k ascending.
RECURSIVE Convolve(_, _, _, _, _, _)
Convolve(buffer, hrir, base, cursor, k, acc) ==
    IF k >= HRIR_LENGTH THEN acc
    ELSE Convolve(buffer, hrir, base, cursor, k + 1,
                  FAdd(acc, FMul(At(buffer, BufIdx(cursor, k)), At(hrir, base + k))))

StoreSample_Next(buffer, cursor, v) ==
    [buffer EXCEPT ![((cursor + 1) % HRIR_LENGTH) + 1] = v]

\* buffer[this.bufferIndex] = speakerSignal
StoreSample(buffer, cursor, v) == [buffer EXCEPT ![cursor + 1] = v]

\* The speaker loop of one sample: st = [bufs, sumL, sumR].
RECURSIVE SpeakerLoop(_, _, _, _, _, _)
SpeakerLoop(st, spk, frame, hrir, dm, cursor) ==
    IF spk >= NUM_SPEAKERS THEN st
    ELSE LET speakerSignal ==
                 SpeakerSignal(dm, spk, frame[1], frame[2], frame[3], frame[4])
             buffer == StoreSample(st.bufs[spk + 1], cursor, speakerSignal)
             hrirOffset == spk * 2 * HRIR_LENGTH
             convL == Convolve(buffer, hrir, hrirOffset, cursor, 0, 0)
             convR == Convolve(buffer, hrir, hrirOffset + HRIR_LENGTH, cursor, 0, 0)
         IN SpeakerLoop([bufs |-> [st.bufs EXCEPT ![spk + 1] = buffer],
                         sumL |-> FAdd(st.sumL, convL),
                         sumR |-> FAdd(st.sumR, convR)],
                        spk + 1, frame, hrir, dm, cursor)

\* outL[i] = sumL * scale with scale = 1.0 / NUM_SPEAKERS, as a fraction.
Scale(sum) == [num |-> sum, den |-> NUM_SPEAKERS]

Advance_NoWrap(cursor) == cursor + 1

\* this.bufferIndex = (this.bufferIndex + 1) % HRIR_LENGTH
Advance(cursor) == (cursor + 1) % HRIR_LENGTH

\* A silent output sample (what the host fills every output block with).
Silence == [num |-> 0, den |-> 1]

\* The sample loop: st = [bufs, cursor, outL, outR], i the 0-based sample.
RECURSIVE SampleLoop(_, _, _, _, _)
SampleLoop(st, i, input, hrir, dm) ==
    IF i >= Len(input[1]) THEN st
    ELSE LET frame == <<input[1][i + 1], input[2][i + 1],
                        input[3][i + 1], input[4][i + 1]>>
             r == SpeakerLoop([bufs |-> st.bufs, sumL |-> 0, sumR |-> 0],
                              0, frame, hrir, dm, st.cursor)
         IN SampleLoop([bufs |-> r.bufs,
                        cursor |-> Advance(st.cursor),
                        outL |-> [st.outL EXCEPT ![i + 1] = Scale(r.sumL)],
                        outR |-> [st.outR EXCEPT ![i + 1] = Scale(r.sumR)]],
                       i + 1, input, hrir, dm)

\* The frames of a 4-channel input block, in order.
FramesOf(input) ==
    [i \in 1..Len(input[1]) |-> <<input[1][i], input[2][i], input[3][i], input[4][i]>>]

\* if (!input || input.length < 4 || !output || output.length < 2) return true;
TooFewChannels(input, output) == Len(input) < 4 \/ Len(output) < 2

PassSilence_Never(init) == FALSE

\* if (!this.initialized) return true;
PassSilence(init) == ~init

\* process(inputs, outputs): input = inputs[0] is a sequence of channels
\* (<<>> when nothing is connected), output = outputs[0] a sequence of
\* zero-filled channels.  The return value is always true.
DecProcess(input, output) ==
    /\ proc = "foa-binaural-decoder"
    /\ decCall' = [op |-> "process", input |-> input, output |-> output,
                   returned |-> TRUE]
    /\ IF TooFewChannels(input, output)
          THEN /\ decOutput' = output
               /\ UNCHANGED <<speakerBuffers, bufferIndex, decHist>>
          ELSE IF PassSilence(initialized)
          THEN /\ decOutput' = output
               /\ UNCHANGED <<speakerBuffers, bufferIndex, decHist>>
          ELSE /\ Len(decHist) + Len(input[1]) <= MaxSamples
               /\ LET r == SampleLoop([bufs |-> speakerBuffers, cursor |-> bufferIndex,
                                       outL |-> output[1], outR |-> output[2]],
                                      0, input, hrirData, decodeMatrix)
                  IN /\ speakerBuffers' = r.bufs
                     /\ bufferIndex' = r.cursor
                     /\ decOutput' = [output EXCEPT ![1] = r.outL, ![2] = r.outR]
               /\ decHist' = decHist \o
                     [i \in 1..Len(input[1]) |->
                         [frame |-> FramesOf(input)[i], dm |-> decodeMatrix]]
    /\ UNCHANGED <<hrirData, decodeMatrix, initialized, decMsgs>>

\* ---------------------------------------------------------------- encoder
\* Angles are fixed-point: the integer a stands for a / AngleScale steps of
\* pi/4, so that the smoothing below is exact for MaxEncSamples samples.
\* cos and sin stay symbolic: a product s * cos(el) * sin(az) is kept as its
\* integer amplitude s and the list of its (finite) trigonometric factors,
\* and 0 times a finite factor is 0.
AngleScale == 500 * 500 * 500
PI == 4 * AngleScale
MaxEncSamples == 3

\* this.smoothingCoeff = 0.002
smoothingCoeff == [num |-> 1, den |-> 500]
\* const SQRT1_2 = 0.7071067811865476
SQRT1_2 == [fn |-> "SQRT1_2", arg |-> 0]
Cos(a) == [fn |-> "cos", arg |-> a]
Sin(a) == [fn |-> "sin", arg |-> a]

\* A product: amp times the factors; the sample s itself is Num(s).
Num(s) == [amp |-> s, factors |-> <<>>]
TMul(p, f) == IF p.amp = 0 THEN Num(0)
              ELSE [amp |-> p.amp, factors |-> Append(p.factors, f)]

VARIABLES
    currentAzimuth, currentElevation,   \* smoothed direction
    targetAzimuth, targetElevation,     \* read from the parameters per block
    encOutput,                          \* outputs[0] after the last process()
    encCall,                            \* the last handler that ran, its arguments
    encSamples                          \* samples encoded so far

encVars == <<currentAzimuth, currentElevation, targetAzimuth, targetElevation,
             encOutput, encCall, encSamples>>

\* The constructor.
EncInit ==
    /\ currentAzimuth = 0
    /\ currentElevation = 0
    /\ targetAzimuth = 0
    /\ targetElevation = 0
    /\ encOutput = <<>>
    /\ encCall = [op |-> "constructor"]
    /\ encSamples = 0

Smooth_Jump(current, target) == target

\* current += (target - current) * this.smoothingCoeff
Smooth(current, target) ==
    current + ((target - current) * smoothingCoeff.num) \div smoothingCoeff.den

\* The fixed-point step loses nothing.
SmoothExact(current, target) ==
    ((target - current) * smoothingCoeff.num) % smoothingCoeff.den = 0

EncodeSample_Bias(s, az, el) ==
    <<TMul(Num(s + 1), SQRT1_2),
      TMul(TMul(Num(s), Cos(el)), Sin(az)),
      TMul(Num(s), Sin(el)),
      TMul(TMul(Num(s), Cos(el)), Cos(az))>>

\* outW, outY, outZ, outX for the sample s at the smoothed direction.
EncodeSample(s, az, el) ==
    LET cosEl == Cos(el)
        sinEl == Sin(el)
        cosAz == Cos(az)
        sinAz == Sin(az)
    IN <<TMul(Num(s), SQRT1_2),
         TMul(TMul(Num(s), cosEl), sinAz),
         TMul(Num(s), sinEl),
         TMul(TMul(Num(s), cosEl), cosAz)>>

\* The sample loop: st = [az, el, out, exact], i the 0-based sample.
RECURSIVE EncSampleLoop(_, _, _, _, _)
EncSampleLoop(st, i, inputChannel, tAz, tEl) ==
    IF i >= Len(inputChannel) THEN st
    ELSE LET az == Smooth(st.az, tAz)
             el == Smooth(st.el, tEl)
             f == EncodeSample(inputChannel[i + 1], az, el)
         IN EncSampleLoop(
                [az |-> az, el |-> el,
                 exact |-> st.exact /\ SmoothExact(st.az, tAz) /\ SmoothExact(st.el, tEl),
                 out |-> [c \in 1..Len(st.out) |->
                             IF c <= 4 THEN [st.out[c] EXCEPT ![i + 1] = f[c]]
                             ELSE st.out[c]]],
                i + 1, inputChannel, tAz, tEl)

EncTooFewChannels_Three(input, output) == Len(input) < 1 \/ Len(output) < 3

\* if (!input || !input[0] || !output || output.length < 4) return true;
EncTooFewChannels(input, output) == Len(input) < 1 \/ Len(output) < 4

\* process(inputs, outputs, parameters): input = inputs[0] is a sequence of
\* channels, output = outputs[0] a sequence of zero-filled channels,
\* parameters the k-rate azimuth and elevation (one value per block).
EncProcess(input, output, parameters) ==
    /\ proc = "foa-encoder"
    /\ encCall' = [op |-> "process", input |-> input, output |-> output,
                   parameters |-> parameters, returned |-> TRUE]
    /\ IF EncTooFewChannels(input, output)
          THEN /\ encOutput' = output
               /\ UNCHANGED <<currentAzimuth, currentElevation, targetAzimuth,
                              targetElevation, encSamples>>
          ELSE /\ encSamples + Len(input[1]) <= MaxEncSamples
               /\ targetAzimuth' = parameters.azimuth[1]
               /\ targetElevation' = parameters.elevation[1]
               /\ LET r == EncSampleLoop([az |-> currentAzimuth, el |-> currentElevation,
                                          exact |-> TRUE, out |-> output],
                                         0, input[1], parameters.azimuth[1],
                                         parameters.elevation[1])
                  IN /\ r.exact
                     /\ currentAzimuth' = r.az
                     /\ currentElevation' = r.el
                     /\ encOutput' = r.out
               /\ encSamples' = encSamples + Len(input[1])

\* ------------------------------------------------- HRIR data and its loader
\* export const SPEAKER_AZIMUTHS (degrees); the model's speakers are the
\* first NUM_SPEAKERS of them.
SPEAKER_AZIMUTHS == <<0, 45, 90, 135, 180, -135, -90, -45>>

\* n / d, rounded to the nearest integer.
RoundDiv(n, d) ==
    IF n >= 0 THEN (n + d \div 2) \div d ELSE 0 - ((d \div 2 - n) \div d)

\* Math.sin at the whole degrees from 0 to 90, in millionths.
SinTable ==
    <<0, 17452, 34899, 52336, 69756, 87156, 104528, 121869, 139173, 156434,
      173648, 190809, 207912, 224951, 241922, 258819, 275637, 292372, 309017, 325568,
      342020, 358368, 374607, 390731, 406737, 422618, 438371, 453990, 469472, 484810,
      500000, 515038, 529919, 544639, 559193, 573576, 587785, 601815, 615661, 629320,
      642788, 656059, 669131, 681998, 694658, 707107, 719340, 731354, 743145, 754710,
      766044, 777146, 788011, 798636, 809017, 819152, 829038, 838671, 848048, 857167,
      866025, 874620, 882948, 891007, 898794, 906308, 913545, 920505, 927184, 933580,
      939693, 945519, 951057, 956305, 961262, 965926, 970296, 974370, 978148, 981627,
      984808, 987688, 990268, 992546, 994522, 996195, 997564, 998630, 999391, 999848,
      1000000>>

\* Math.sin((deg * Math.PI) / 180) for a whole number of degrees, in
\* millionths: the angle is brought into the first quadrant.
RECURSIVE SinWhole(_)
SinWhole(deg) ==
    IF deg < 0 THEN 0 - SinWhole(0 - deg)
    ELSE IF deg >= 360 THEN SinWhole(deg - 360)
    ELSE IF deg > 180 THEN 0 - SinWhole(deg - 180)
    ELSE IF deg > 90 THEN SinWhole(180 - deg)
    ELSE SinTable[deg + 1]

\* Math.cos((deg * Math.PI) / 180) for a whole number of degrees, in
\* millionths.
CosWhole(deg) == SinWhole(90 - (IF deg < 0 THEN 0 - deg ELSE deg))

\* Math.cos / Math.sin of a whole number of degrees, in thousandths.
CosDeg(deg) == RoundDiv(CosWhole(deg), 1000)
SinDeg(deg) == RoundDiv(SinWhole(deg), 1000)

\* BUILTIN_HRIRS = generateAllHRIRs(), computed once when the module loads:
\* one left/right pair of HRIR_LENGTH taps per speaker.  The taps are kept
\* opaque: one distinct number per speaker, ear and tap.
BUILTIN_HRIRS ==
    [spk \in 1..NUM_SPEAKERS |->
        [left  |-> [k \in 1..HRIR_LENGTH |-> 100 * spk + k],
         right |-> [k \in 1..HRIR_LENGTH |-> 100 * spk + 50 + k]]]

\* typedArray.set(arr, offset)
SetAt(data, arr, offset) ==
    [i \in 1..Len(data) |->
        IF i > offset /\ i <= offset + Len(arr) THEN arr[i - offset] ELSE data[i]]

RECURSIVE BuiltInFill_RightFirst(_, _)
BuiltInFill_RightFirst(data, spk) ==
    IF spk >= NUM_SPEAKERS THEN data
    ELSE LET offset == spk * 2 * HRIR_LENGTH
         IN BuiltInFill_RightFirst(
                SetAt(SetAt(data, BUILTIN_HRIRS[spk + 1].right, offset),
                      BUILTIN_HRIRS[spk + 1].left, offset + HRIR_LENGTH),
                spk + 1)

\* The speaker loop of getHRIRDataForWorklet, from speaker spk (0-based) on.
RECURSIVE BuiltInFill(_, _)
BuiltInFill(data, spk) ==
    IF spk >= NUM_SPEAKERS THEN data
    ELSE LET offset == spk * 2 * HRIR_LENGTH
         IN BuiltInFill(SetAt(SetAt(data, BUILTIN_HRIRS[spk + 1].left, offset),
                              BUILTIN_HRIRS[spk + 1].right, offset + HRIR_LENGTH),
                        spk + 1)

getHRIRDataForWorklet_OneEar ==
    BuiltInFill(ZeroArray(NUM_SPEAKERS * HRIR_LENGTH), 0)

\* getHRIRDataForWorklet(): a zero-filled Float32Array(NUM_SPEAKERS * 2 *
\* HRIR_LENGTH), filled speaker by speaker.
getHRIRDataForWorklet == BuiltInFill(ZeroArray(NUM_SPEAKERS * 2 * HRIR_LENGTH), 0)

\* getFOADecodeMatrix: [0.7071..., sin(az), 0, cos(az)] per speaker, in
\* thousandths.
getFOADecodeMatrix ==
    [i \in 1..(NUM_SPEAKERS * 4) |->
        LET spk == (i - 1) \div 4
            col == (i - 1) % 4
            az == SPEAKER_AZIMUTHS[spk + 1]
        IN CASE col = 0 -> 707
             [] col = 1 -> SinDeg(az)
             [] col = 2 -> 0
             [] OTHER -> CosDeg(az)]

\* azimuthToCartesian: x front, y left (the sine negated), z up.
azimuthToCartesian(az) == [x |-> CosDeg(az), y |-> 0 - SinDeg(az), z |-> 0]

normalizeHRIRLength_NoPad(hrir, targetLength) ==
    SubSeq(hrir, 1, IF Len(hrir) < targetLength THEN Len(hrir) ELSE targetLength)

\* normalizeHRIRLength: the same array when the length fits, else a zeroed
\* array of targetLength with the first min(length, targetLength) taps copied.
normalizeHRIRLength(hrir, targetLength) ==
    IF Len(hrir) = targetLength THEN hrir
    ELSE LET copyLength == IF Len(hrir) < targetLength THEN Len(hrir) ELSE targetLength
         IN SetAt(ZeroArray(targetLength), SubSeq(hrir, 1, copyLength), 0)

\* A SOFA dataset as the loader sees it: the error code of the open, the
\* filter length, the speaker (0-based, -1 for none) at whose getFilter call
\* the library throws, and the taps it answers for a direction, which are
\* opaque: one distinct number per dataset, direction, ear and tap.
Datasets ==
    [id : {1, 2}, err : {0, 10000}, len : 0..(HRIR_LENGTH + 1),
     failAt : -1..(NUM_SPEAKERS - 1)]

SofaTaps(ds, dir, ear) ==
    [k \in 1..ds.len |-> 100000 * ds.id + 10 * (dir.x + 1000) + 3 * (dir.y + 1000)
                          + 50000 * ear + k]

\* api.getFilter(handle, x, y, z) for speaker spk: the pair, or a throw (of
\* the library, or for a filter length of 0).
GetFilter(ds, spk, dir) ==
    [threw |-> (ds.len = 0 \/ ds.failAt = spk),
     left  |-> SofaTaps(ds, dir, 0),
     right |-> SofaTaps(ds, dir, 1)]

ExtractLoop_PerSpeaker(ds, data, spk) ==
    [threw |-> FALSE,
     data |-> [i \in 1..Len(data) |->
                 LET s == (i - 1) \div (2 * HRIR_LENGTH)
                     dir == azimuthToCartesian(SPEAKER_AZIMUTHS[s + 1])
                     ear == ((i - 1) \div HRIR_LENGTH) % 2
                     k == ((i - 1) % HRIR_LENGTH) + 1
                     taps == normalizeHRIRLength(SofaTaps(ds, dir, ear), HRIR_LENGTH)
                 IN IF ds.failAt = s THEN getHRIRDataForWorklet[i] ELSE taps[k]]]

\* The speaker loop of loadSOFAHRIRs from speaker spk (0-based) on: the filled
\* array, or the throw of the first getFilter call that fails.
RECURSIVE ExtractLoop(_, _, _)
ExtractLoop(ds, data, spk) ==
    IF spk >= NUM_SPEAKERS THEN [threw |-> FALSE, data |-> data]
    ELSE LET azRad == SPEAKER_AZIMUTHS[spk + 1]
             dir == azimuthToCartesian(azRad)
             f == GetFilter(ds, spk, dir)
             leftNorm == normalizeHRIRLength(f.left, HRIR_LENGTH)
             rightNorm == normalizeHRIRLength(f.right, HRIR_LENGTH)
             offset == spk * 2 * HRIR_LENGTH
         IN IF f.threw THEN [threw |-> TRUE, data |-> data]
            ELSE ExtractLoop(ds, SetAt(SetAt(data, leftNorm, offset),
                                       rightNorm, offset + HRIR_LENGTH),
                             spk + 1)

CatchFallback_Rethrow == [state |-> "rejected", value |-> [source |-> "error"]]

\* The catch block: the promise resolves with the built-in set.
CatchFallback ==
    [state |-> "resolved",
     value |-> [hrirData |-> getHRIRDataForWorklet,
                decodeMatrix |-> getFOADecodeMatrix,
                source |-> "builtin"]]

\* The synchronous rest of the try block, from api.open on, for the dataset
\* ds: how the promise settles, and what became of the handle.
OpenAndExtract(ds) ==
    IF ds.err # 0
       THEN [settle |-> CatchFallback, handle |-> "open"]
    ELSE IF ds.len <= 0
       THEN [settle |-> CatchFallback, handle |-> "closed"]
    ELSE LET r == ExtractLoop(ds, ZeroArray(NUM_SPEAKERS * 2 * HRIR_LENGTH), 0)
         IN IF r.threw
               THEN [settle |-> CatchFallback, handle |-> "open"]
               ELSE [settle |-> [state |-> "resolved",
                                 value |-> [hrirData |-> r.data,
                                            decodeMatrix |-> getFOADecodeMatrix,
                                            source |-> "sofa",
                                            filterLength |-> ds.len]],
                     handle |-> "closed"]

MaxLoads == 2

VARIABLES
    loadPc,       \* where the running loadSOFAHRIRs call is suspended
    loadPromise,  \* the state and value of the promise the last call returned
    loadEnv,      \* what the environment answered to the running call so far
    sofaHandle,   \* the handle api.open returned to the last call
    loadCalls     \* calls made so far

loadVars == <<loadPc, loadPromise, loadEnv, sofaHandle, loadCalls>>

NoEnv == [sampleRate |-> 0, init |-> "pending", fetch |-> "pending",
          ds |-> [id |-> 0, err |-> 0, len |-> 0, failAt |-> -1]]

LoadInit ==
    /\ loadPc = "idle"
    /\ loadPromise = [state |-> "none"]
    /\ loadEnv = NoEnv
    /\ sofaHandle = "none"
    /\ loadCalls = 0

\* loadSOFAHRIRs(sampleRate) is called: it runs to `await initLibMySofa()`.
LoadCall(sampleRate) ==
    /\ loadPc \in {"idle", "done"}
    /\ loadCalls < MaxLoads
    /\ loadCalls' = loadCalls + 1
    /\ loadPc' = "initLibMySofa"
    /\ loadPromise' = [state |-> "pending"]
    /\ loadEnv' = [NoEnv EXCEPT !.sampleRate = sampleRate]
    /\ sofaHandle' = "none"

\* initLibMySofa() settles: on success the call goes on to
\* loadSofaToMemFs and its `await fetch(url)`, on failure to the catch block.
InitLibSettles(ok) ==
    /\ loadPc = "initLibMySofa"
    /\ loadEnv' = [loadEnv EXCEPT !.init = IF ok THEN "ok" ELSE "failed"]
    /\ IF ok
          THEN /\ loadPc' = "fetch"
               /\ UNCHANGED loadPromise
          ELSE /\ loadPc' = "done"
               /\ loadPromise' = CatchFallback
    /\ UNCHANGED <<sofaHandle, loadCalls>>

\* fetch(url) settles: rejected, answered with a status that is not ok (the
\* throw of loadSofaToMemFs), or ok, which leads to `await res.arrayBuffer()`.
FetchSettles(outcome) ==
    /\ loadPc = "fetch"
    /\ IF outcome = "ok"
          THEN /\ loadPc' = "arrayBuffer"
               /\ UNCHANGED <<loadPromise, loadEnv>>
          ELSE /\ loadPc' = "done"
               /\ loadEnv' = [loadEnv EXCEPT !.fetch = outcome]
               /\ loadPromise' = CatchFallback
    /\ UNCHANGED <<sofaHandle, loadCalls>>

\* res.arrayBuffer() settles: rejected, or the file is written to the
\* memory file system (which may throw) and the rest of the try block runs
\* on the dataset ds.
BodySettles(outcome, ds) ==
    /\ loadPc = "arrayBuffer"
    /\ loadPc' = "done"
    /\ IF outcome = "ok"
          THEN /\ loadEnv' = [loadEnv EXCEPT !.fetch = "ok", !.ds = ds]
               /\ loadPromise' = OpenAndExtract(ds).settle
               /\ sofaHandle' = OpenAndExtract(ds).handle
          ELSE /\ loadEnv' = [loadEnv EXCEPT !.fetch = outcome]
               /\ loadPromise' = CatchFallback
               /\ UNCHANGED sofaHandle
    /\ UNCHANGED loadCalls

\* ------------------------------------------- the built-in HRIR generator
\* JavaScript numbers are IEEE doubles: a product or a sum beyond 2^53 is
\* rounded to 53 significant bits (ties to even).  TLC's integers have 32
\* bits, so the numbers of seededRandom are kept as little-endian digits in
\* base 2^11.
\* F(e), with e evaluated once, however often F uses its argument.
Bind(F(_), e) == CHOOSE y \in {F(x) : x \in {e}} : TRUE

DigitBase == 2048
NumDigits == 6

\* The digits of 0 <= n < 2^31.
ToDigits(n) ==
    <<n % DigitBase, (n \div DigitBase) % DigitBase, n \div (DigitBase * DigitBase), 0, 0, 0>>

RECURSIVE CarryFrom(_)
CarryFrom(st) ==
    IF st.i > NumDigits THEN st.ds
    ELSE Bind(LAMBDA v : Bind(CarryFrom, [ds |-> [st.ds EXCEPT ![st.i] = v % DigitBase],
                                          i |-> st.i + 1, c |-> v \div DigitBase]),
              st.ds[st.i] + st.c)

\* The digits of the number whose i-th and later digits are too large, with
\* c more to add at digit i.
Carry(ds, i, c) == Bind(CarryFrom, [ds |-> ds, i |-> i, c |-> c])

\* x * y, exactly, for x, y < 2^31.
MulDigits(x, y) ==
    Carry(<<x[1] * y[1],
            x[1] * y[2] + x[2] * y[1],
            x[1] * y[3] + x[2] * y[2] + x[3] * y[1],
            x[2] * y[3] + x[3] * y[2],
            x[3] * y[3],
            0>>, 1, 0)

RECURSIVE Pow2(_)
Pow2(q) == IF q = 0 THEN 1 ELSE 2 * Pow2(q - 1)

\* The number of significant bits.
BitLen(ds) ==
    LET Used == {i \in 1..NumDigits : ds[i] # 0}
    IN IF Used = {} THEN 0
       ELSE LET top == CHOOSE i \in Used : \A j \in Used : j <= i
                bits == CHOOSE b \in 1..11 : ds[top] < Pow2(b) /\ ds[top] >= Pow2(b - 1)
            IN 11 * (top - 1) + bits

\* The nearest double, ties to even (numbers below 2^64).
RoundToDouble(ds) ==
    LET Rounded(n) ==
            IF n <= 53 THEN ds
            ELSE LET p == Pow2(n - 53)
                     rem == ds[1] % p
                     odd == (ds[1] \div p) % 2 = 1
                     up == 2 * rem > p \/ (2 * rem = p /\ odd)
                 IN Carry([ds EXCEPT ![1] = ds[1] - rem + (IF up THEN p ELSE 0)], 1, 0)
    IN Bind(Rounded, BitLen(ds))

\* n & 0x7fffffff
Low31(ds) == ds[1] + ds[2] * DigitBase + (ds[3] % 512) * DigitBase * DigitBase

\* seed = (seed * 1103515245 + 12345) & 0x7fffffff, in double arithmetic.
seededRandom_seed(seed) ==
    LET Times(s) == MulDigits(s, ToDigits(1103515245))
        Plus(product) == Carry([product EXCEPT ![1] = @ + 12345], 1, 0)
    IN Bind(Low31,
            Bind(RoundToDouble,
                 Bind(Plus, Bind(RoundToDouble, Bind(Times, Bind(ToDigits, seed))))))

\* ildFactor = Math.pow(10, -ildDb / 20), in thousandths.
ildFactor == 501
maxDelaySamples == 22
\* The taps after the direct one that get a reflection: t < 20.
ReflectionTaps == 20
MaxAmbient == 3
MaxModuleLoads == 2
MaxReturned == 2

\* A tap is kept as the terms of its product,
\* gain * Math.pow(decayRate, t) * 0.3 * (rnd * 0.5 + 0.5): the gain in
\* thousandths, the exponent, and the numerator over 0x7fffffff of the
\* number Math.random() returned.  The direct tap (t = 0) draws no number.
NoDraw == -1
ZeroTap == [gain |-> 0, t |-> 0, rnd |-> NoDraw]

VARIABLES
    mathRandom,    \* the function Math.random is: [fn, seed of the closure]
    ambientState,  \* the state of the browser's own generator
    modules,       \* the evaluations of the module: their BUILTIN_HRIRS
    returned       \* what the calls of getHRIRDataForWorklet returned

genVars == <<mathRandom, ambientState, modules, returned>>

OriginalRandom == [fn |-> "original", seed |-> 0]

GenInit ==
    /\ mathRandom = OriginalRandom
    /\ ambientState = 0
    /\ modules = <<>>
    /\ returned = <<>>

\* Math.random(), whatever function it is at the time: the value and the
\* generators' states after the call.
MathRandom(rs) ==
    IF rs.mr.fn = "seededRandom"
       THEN Bind(LAMBDA seed : [value |-> seed, rs |-> [rs EXCEPT !.mr.seed = seed]],
                 seededRandom_seed(rs.mr.seed))
       ELSE [value |-> rs.ambient,
             rs |-> [rs EXCEPT !.ambient = (rs.ambient + 1) % (MaxAmbient + 1)]]

RECURSIVE NormalizeAzimuth(_)
NormalizeAzimuth(az) ==
    IF az > 180 THEN NormalizeAzimuth(az - 360)
    ELSE IF az < -180 THEN NormalizeAzimuth(az + 360)
    ELSE az

Abs(x) == IF x < 0 THEN -x ELSE x
Max0(x) == IF x < 0 THEN 0 ELSE x

\* Math.round(Math.max(0, f * maxDelaySamples)), f in thousandths.
DelayOf(f) == (Max0(f * maxDelaySamples) + 500) \div 1000

\* One ear's tap i: [tap, rs].
EarTap(i, delay, gain, rs) ==
    IF i >= delay
       THEN LET t == i - delay
            IN IF t = 0 THEN [tap |-> [gain |-> gain, t |-> 0, rnd |-> NoDraw], rs |-> rs]
               ELSE IF t < ReflectionTaps
                       THEN Bind(LAMBDA r : [tap |-> [gain |-> gain, t |-> t, rnd |-> r.value],
                                             rs |-> r.rs],
                                 MathRandom(rs))
                       ELSE [tap |-> ZeroTap, rs |-> rs]
       ELSE [tap |-> ZeroTap, rs |-> rs]

\* The loop of generateSyntheticHRIR from tap i (0-based) on.
RECURSIVE TapLoop(_, _, _)
TapLoop(delays, gains, st) ==
    IF st.i >= HRIR_LENGTH THEN [left |-> st.left, right |-> st.right, rs |-> st.rs]
    ELSE LET Right(l) == Bind(LAMBDA r : [i |-> st.i + 1, left |-> Append(st.left, l.tap),
                                          right |-> Append(st.right, r.tap), rs |-> r.rs],
                              EarTap(st.i, delays.right, gains.right, l.rs))
         IN Bind(LAMBDA next : TapLoop(delays, gains, next),
                 Bind(Right, EarTap(st.i, delays.left, gains.left, st.rs)))

\* generateSyntheticHRIR(azimuthDeg): [left, right] and the generators after.
generateSyntheticHRIR(azimuthDeg, rs) ==
    LET az == NormalizeAzimuth(azimuthDeg)
        delayFactor == SinDeg(az)
        rightDelay == DelayOf(-delayFactor)
        leftDelay == DelayOf(delayFactor)
        shadowed == 1000 - ((1000 - ildFactor) * Abs(SinDeg(az)) + 500) \div 1000
        gains == IF az >= 0 THEN [left |-> shadowed, right |-> 1000]
                            ELSE [left |-> 1000, right |-> shadowed]
    IN TapLoop([left |-> leftDelay, right |-> rightDelay], gains,
               [i |-> 0, left |-> <<>>, right |-> <<>>, rs |-> rs])

\* SPEAKER_AZIMUTHS.map(az => generateSyntheticHRIR(az)), from speaker spk on.
RECURSIVE MapSpeakers(_)
MapSpeakers(st) ==
    IF st.spk > NUM_SPEAKERS THEN [hrirs |-> st.hrirs, rs |-> st.rs]
    ELSE Bind(LAMBDA h : Bind(MapSpeakers,
                              [spk |-> st.spk + 1,
                               hrirs |-> Append(st.hrirs, [left |-> h.left, right |-> h.right]),
                               rs |-> h.rs]),
              generateSyntheticHRIR(SPEAKER_AZIMUTHS[st.spk], st.rs))

generateAllHRIRs_Unseeded(mr, ambient) ==
    Bind(LAMBDA run : [hrirs |-> run.hrirs, mathRandom |-> mr, ambient |-> run.rs.ambient],
         MapSpeakers([spk |-> 1, hrirs |-> <<>>, rs |-> [mr |-> mr, ambient |-> ambient]]))

\* generateAllHRIRs(), entered with Math.random being mr: the HRIRs, and
\* Math.random and the browser's generator when it returns.
generateAllHRIRs(mr, ambient) ==
    LET originalRandom == mr
    IN Bind(LAMBDA run : [hrirs |-> run.hrirs, mathRandom |-> originalRandom,
                          ambient |-> run.rs.ambient],
            MapSpeakers([spk |-> 1, hrirs |-> <<>>,
                         rs |-> [mr |-> [fn |-> "seededRandom", seed |-> 12345],
                                 ambient |-> ambient]]))

\* The module is evaluated (the page loads): BUILTIN_HRIRS = generateAllHRIRs().
ModuleLoad ==
    /\ Len(modules) < MaxModuleLoads
    /\ \E g \in {generateAllHRIRs(mathRandom, ambientState)} :
          /\ modules' = Append(modules, [BUILTIN_HRIRS |-> g.hrirs, ambientAtLoad |-> ambientState])
          /\ mathRandom' = g.mathRandom
          /\ ambientState' = g.ambient
    /\ UNCHANGED returned

\* The speaker loop of getHRIRDataForWorklet over the BUILTIN_HRIRS of an
\* evaluation of the module.
RECURSIVE ModuleFill(_, _, _)
ModuleFill(hrirs, data, spk) ==
    IF spk >= NUM_SPEAKERS THEN data
    ELSE LET offset == spk * 2 * HRIR_LENGTH
         IN ModuleFill(hrirs,
                       SetAt(SetAt(data, hrirs[spk + 1].left, offset),
                             hrirs[spk + 1].right, offset + HRIR_LENGTH),
                       spk + 1)

\* getHRIRDataForWorklet(), called on the module evaluated last.
GetHRIRDataForWorklet ==
    /\ Len(modules) > 0
    /\ Len(returned) < MaxReturned
    /\ returned' = Append(returned,
          [module |-> Len(modules),
           data |-> ModuleFill(modules[Len(modules)].BUILTIN_HRIRS,
                               [i \in 1..(NUM_SPEAKERS * 2 * HRIR_LENGTH) |-> ZeroTap], 0)])
    /\ UNCHANGED <<mathRandom, ambientState, modules>>

\* Other code of the page calls Math.random().
AmbientRandom ==
    /\ \E r \in {MathRandom([mr |-> mathRandom, ambient |-> ambientState])} :
          /\ mathRandom' = r.rs.mr
          /\ ambientState' = r.rs.ambient
    /\ UNCHANGED <<modules, returned>>

\* ---------------------------------------------------------- the audio engine
\* class AudioEngine (FOA encoders -> FOA bus -> binaural decoder).  Web
\* Audio nodes are numbered in order of creation; 0 stands for null.  The
\* channel splitter and the analysers, which only feed the meters, are left
\* out.  Every `await` of init() is a place where the call is suspended and
\* where other calls of the engine's methods may run.  NUM_OBJECTS is
\* AUDIO_ASSETS.length, three in the source, scaled down here.
NUM_OBJECTS == 2
MaxInits == 2
MaxDisposes == 2

VARIABLES
    audioContext,     \* this.audioContext: 0, or the context's number
    ctxs,             \* the contexts created: [state, modules]
    foaBus,           \* this.foaBus: 0, or the bus's number
    buses,            \* the buses created: [ctx, decoders connected to]
    binauralDecoder,  \* this.binauralDecoder: 0, or the decoder node's number
    decoderNodes,     \* the decoder nodes created: [ctx, posted messages]
    masterGain,       \* this.masterGain: 0, or the context it was made on
    gainNodes,        \* this.gainNodes: [bus] the gain's encoder feeds, 0 if none
    foaEncoders,      \* this.foaEncoders: [bus]
    audioBuffers,     \* this.audioBuffers: the decoded assets
    sourceNodes,      \* this.sourceNodes: [buffer, gain, started]
    isPlaying, isLoaded, workletReady,
    inits,            \* the init() calls made: [pc, ctx, assets]
    disposes,         \* dispose() calls made
    engCall           \* the last method that ran, and whether it threw

engVars == <<audioContext, ctxs, foaBus, buses, binauralDecoder, decoderNodes,
             masterGain, gainNodes, foaEncoders, audioBuffers, sourceNodes,
             isPlaying, isLoaded, workletReady, inits, disposes, engCall>>

\* The field initializers of the class.
EngInit ==
    /\ audioContext = 0
    /\ ctxs = <<>>
    /\ foaBus = 0
    /\ buses = <<>>
    /\ binauralDecoder = 0
    /\ decoderNodes = <<>>
    /\ masterGain = 0
    /\ gainNodes = <<>>
    /\ foaEncoders = <<>>
    /\ audioBuffers = <<>>
    /\ sourceNodes = <<>>
    /\ isPlaying = FALSE
    /\ isLoaded = FALSE
    /\ workletReady = FALSE
    /\ inits = <<>>
    /\ disposes = 0
    /\ engCall = [op |-> "constructor", threw |-> FALSE]

\* What loadSOFAHRIRs can resolve with: the built-in set, or the set
\* extracted from a dataset (here one of full length).
LoaderResults ==
    {CatchFallback.value,
     OpenAndExtract([id |-> 1, err |-> 0, len |-> HRIR_LENGTH, failAt |-> -1]).settle.value}

\* The 'setHRIR' message init() builds from the loader's result.
SetHRIRMessage(sofaResult) ==
    [type |-> "setHRIR", hrirData |-> sofaResult.hrirData,
     decodeMatrix |-> sofaResult.decodeMatrix]

PostSetHRIR_Skip(nodes, d, sofaResult) == nodes

\* this.binauralDecoder.port.postMessage({type: 'setHRIR', ...})
PostSetHRIR(nodes, d, sofaResult) ==
    [nodes EXCEPT ![d].posted = Append(@, SetHRIRMessage(sofaResult))]

\* new AudioWorkletNode(context, name) throws unless the module that
\* registers name was added to that context.
CanCreateWorklet(cs, ctx, name) == name \in cs[ctx].modules

\* An init() call ends (the asset chains still running can no longer reach
\* the engine: they are dropped), or is suspended at its next await.
Settle(i, pc) == inits' = [inits EXCEPT ![i].pc = pc, ![i].assets = <<>>]
Suspend(i, pc, ctx) ==
    inits' = [inits EXCEPT ![i] = [pc |-> pc, ctx |-> ctx, assets |-> <<>>]]

\* The continuations that run as microtasks, before the host delivers its
\* next event: init() after registerWorklets or loadAudioAssets returned, and
\* loadAudioAssets after Promise.all resolved.
MicrotaskPcs == {"registered", "assetsDecoded", "assetsLoaded"}
HostTurn == \A j \in 1..Len(inits) : inits[j].pc \notin MicrotaskPcs

\* init() is called, and runs to its first await.
InitCall(ctxState) ==
    /\ Len(inits) < MaxInits
    /\ engCall' = [op |-> "init", threw |-> FALSE]
    /\ IF audioContext # 0
          THEN /\ inits' = Append(inits,
                       IF ctxs[audioContext].state = "suspended"
                          THEN [pc |-> "resume", ctx |-> audioContext, assets |-> <<>>]
                          ELSE [pc |-> "resolved", ctx |-> audioContext,
                                assets |-> <<>>])
               /\ UNCHANGED <<audioContext, ctxs>>
          ELSE /\ ctxs' = Append(ctxs, [state |-> ctxState, modules |-> {}])
               /\ audioContext' = Len(ctxs) + 1
               /\ inits' = Append(inits, [pc |-> "addEncoderModule", ctx |-> Len(ctxs) + 1,
                                          assets |-> <<>>])
    /\ UNCHANGED <<foaBus, buses, binauralDecoder, decoderNodes, masterGain,
                   gainNodes, foaEncoders, audioBuffers, sourceNodes, isPlaying,
                   isLoaded, workletReady, disposes>>

\* await this.audioContext.resume() settles; init() returns.
ResumeSettles(i) ==
    /\ i \in 1..Len(inits)
    /\ inits[i].pc = "resume"
    /\ HostTurn
    /\ engCall' = [op |-> "init", threw |-> ctxs[inits[i].ctx].state = "closed"]
    /\ IF ctxs[inits[i].ctx].state = "closed"
          THEN /\ Settle(i, "rejected")
               /\ UNCHANGED ctxs
          ELSE /\ Settle(i, "resolved")
               /\ ctxs' = [ctxs EXCEPT ![inits[i].ctx].state = "running"]
    /\ UNCHANGED <<audioContext, foaBus, buses, binauralDecoder, decoderNodes,
                   masterGain, gainNodes, foaEncoders, audioBuffers, sourceNodes,
                   isPlaying, isLoaded, workletReady, disposes>>

\* registerWorklets: the first addModule settles; on success the second is
\* called on this.audioContext as it is now, a TypeError when that is null.
EncoderModuleSettles(i, ok) ==
    /\ i \in 1..Len(inits)
    /\ inits[i].pc = "addEncoderModule"
    /\ HostTurn
    /\ engCall' = [op |-> "init", threw |-> ~ok \/ audioContext = 0]
    /\ IF ~ok
          THEN /\ Settle(i, "rejected")
               /\ UNCHANGED ctxs
          ELSE /\ ctxs' = [ctxs EXCEPT ![inits[i].ctx].modules = @ \cup {"foa-encoder"}]
               /\ IF audioContext = 0
                     THEN Settle(i, "rejected")
                     ELSE Suspend(i, "addDecoderModule", audioContext)
    /\ UNCHANGED <<audioContext, foaBus, buses, binauralDecoder, decoderNodes,
                   masterGain, gainNodes, foaEncoders, audioBuffers, sourceNodes,
                   isPlaying, isLoaded, workletReady, disposes>>

\* The second addModule settles: registerWorklets sets workletReady and
\* returns.
DecoderModuleSettles(i, ok) ==
    /\ i \in 1..Len(inits)
    /\ inits[i].pc = "addDecoderModule"
    /\ HostTurn
    /\ engCall' = [op |-> "init", threw |-> ~ok]
    /\ IF ~ok
          THEN /\ Settle(i, "rejected")
               /\ UNCHANGED <<ctxs, workletReady>>
          ELSE /\ ctxs' = [ctxs EXCEPT ![inits[i].ctx].modules = @ \cup {"foa-binaural-decoder"}]
               /\ workletReady' = TRUE
               /\ inits' = [inits EXCEPT ![i].pc = "registered"]
    /\ UNCHANGED <<audioContext, foaBus, buses, binauralDecoder, decoderNodes,
                   masterGain, gainNodes, foaEncoders, audioBuffers, sourceNodes,
                   isPlaying, isLoaded, disposes>>

\* init() goes on after `await this.registerWorklets()`: it builds the bus
\* and the decoder node on this.audioContext as it is now and calls
\* loadSOFAHRIRs.
WorkletsRegistered(i) ==
    /\ i \in 1..Len(inits)
    /\ inits[i].pc = "registered"
    /\ IF audioContext = 0
          THEN \* this.audioContext.createGain(): TypeError
               /\ Settle(i, "rejected")
               /\ engCall' = [op |-> "init", threw |-> TRUE]
               /\ UNCHANGED <<foaBus, buses, binauralDecoder, decoderNodes>>
          ELSE /\ buses' = Append(buses, [ctx |-> audioContext, decoders |-> {}])
               /\ foaBus' = Len(buses) + 1
               /\ IF CanCreateWorklet(ctxs, audioContext, "foa-binaural-decoder")
                     THEN /\ decoderNodes' = Append(decoderNodes,
                                 [ctx |-> audioContext, posted |-> <<>>])
                          /\ binauralDecoder' = Len(decoderNodes) + 1
                          /\ Suspend(i, "loadSOFAHRIRs", audioContext)
                          /\ engCall' = [op |-> "init", threw |-> FALSE]
                     ELSE /\ Settle(i, "rejected")
                          /\ engCall' = [op |-> "init", threw |-> TRUE]
                          /\ UNCHANGED <<binauralDecoder, decoderNodes>>
    /\ UNCHANGED <<audioContext, ctxs, masterGain, gainNodes, foaEncoders,
                   audioBuffers, sourceNodes, isPlaying, isLoaded, workletReady,
                   disposes>>

\* The encoder's parameterDescriptors: default and nominal range.
parameterDescriptors ==
    [azimuth   |-> [defaultValue |-> 0, minValue |-> 0 - PI, maxValue |-> PI],
     elevation |-> [defaultValue |-> 0, minValue |-> 0 - (PI \div 4),
                    maxValue |-> PI \div 4]]

\* The k-rate value the host computes for a block: the parameter's value,
\* kept inside its nominal range.
ParamValue(v, d) ==
    IF v < d.minValue THEN d.minValue ELSE IF v > d.maxValue THEN d.maxValue ELSE v

\* new AudioWorkletNode(ctx, 'foa-encoder', ...) connected to the bus: its two
\* AudioParams start at their default values.
EncoderNode(bus) ==
    [bus |-> bus,
     azimuth |-> parameterDescriptors.azimuth.defaultValue,
     elevation |-> parameterDescriptors.elevation.defaultValue]

\* The gain node and encoder loop of init(), from object n on: st holds
\* gainNodes and foaEncoders.  A gain node is pushed before its encoder is
\* created, and the encoder's creation may throw.
RECURSIVE ObjectLoop(_, _, _, _)
ObjectLoop(st, n, canEncode, bus) ==
    IF n >= NUM_OBJECTS THEN st
    ELSE IF ~canEncode
         THEN [st EXCEPT !.gains = Append(@, [bus |-> 0]), !.threw = TRUE]
    ELSE ObjectLoop([st EXCEPT !.gains = Append(@, [bus |-> bus]),
                               !.encoders = Append(@, EncoderNode(bus))],
                    n + 1, canEncode, bus)

\* await loadSOFAHRIRs(...) resolves with sofaResult: init() posts 'setHRIR'
\* to this.binauralDecoder, builds the rest of the graph and calls
\* loadAudioAssets, which starts fetching.
LoadSOFASettles(i, sofaResult) ==
    /\ i \in 1..Len(inits)
    /\ inits[i].pc = "loadSOFAHRIRs"
    /\ HostTurn
    /\ IF binauralDecoder = 0
          THEN \* this.binauralDecoder.port: TypeError
               /\ Settle(i, "rejected")
               /\ engCall' = [op |-> "init", threw |-> TRUE]
               /\ UNCHANGED <<decoderNodes, masterGain, buses, gainNodes, foaEncoders>>
          ELSE \* the decoder is there only when the bus and the context are
               /\ decoderNodes' = PostSetHRIR(decoderNodes, binauralDecoder, sofaResult)
               /\ masterGain' = audioContext
               /\ buses' = [buses EXCEPT ![foaBus].decoders = @ \cup {binauralDecoder}]
               /\ LET r == ObjectLoop([gains |-> gainNodes, encoders |-> foaEncoders,
                                       threw |-> FALSE], 0,
                                      CanCreateWorklet(ctxs, audioContext, "foa-encoder"),
                                      foaBus)
                  IN /\ gainNodes' = r.gains
                     /\ foaEncoders' = r.encoders
                     /\ engCall' = [op |-> "init", threw |-> r.threw]
                     /\ IF r.threw THEN Settle(i, "rejected")
                        ELSE inits' = [inits EXCEPT ![i] =
                                 [pc |-> "loadAudioAssets", ctx |-> audioContext,
                                  assets |-> [a \in 1..NUM_OBJECTS |->
                                                [pc |-> "fetch", ctx |-> 0]]]]
    /\ UNCHANGED <<audioContext, ctxs, foaBus, binauralDecoder, audioBuffers,
                   sourceNodes, isPlaying, isLoaded, workletReady, disposes>>

\* loadAudioAssets: the fetch of asset a settles, ok when it resolved with a
\* response that is ok; response.arrayBuffer() is then called.  The first
\* asset to fail rejects Promise.all, and with it init().
AssetFetched(i, a, ok) ==
    /\ i \in 1..Len(inits)
    /\ inits[i].pc = "loadAudioAssets"
    /\ a \in 1..Len(inits[i].assets)
    /\ inits[i].assets[a].pc = "fetch"
    /\ HostTurn
    /\ engCall' = [op |-> "init", threw |-> ~ok]
    /\ IF ok
          THEN inits' = [inits EXCEPT ![i].assets[a].pc = "arrayBuffer"]
          ELSE Settle(i, "rejected")
    /\ UNCHANGED <<audioContext, ctxs, foaBus, buses, binauralDecoder, decoderNodes,
                   masterGain, gainNodes, foaEncoders, audioBuffers, sourceNodes,
                   isPlaying, isLoaded, workletReady, disposes>>

\* response.arrayBuffer() of asset a settles; decodeAudioData is then called
\* on this.audioContext as it is now, a TypeError when that is null.
AssetBuffered(i, a, ok) ==
    /\ i \in 1..Len(inits)
    /\ inits[i].pc = "loadAudioAssets"
    /\ a \in 1..Len(inits[i].assets)
    /\ inits[i].assets[a].pc = "arrayBuffer"
    /\ HostTurn
    /\ engCall' = [op |-> "init", threw |-> ~ok \/ audioContext = 0]
    /\ IF ok /\ audioContext # 0
          THEN inits' = [inits EXCEPT ![i].assets[a] =
                            [pc |-> "decode", ctx |-> audioContext]]
          ELSE Settle(i, "rejected")
    /\ UNCHANGED <<audioContext, ctxs, foaBus, buses, binauralDecoder, decoderNodes,
                   masterGain, gainNodes, foaEncoders, audioBuffers, sourceNodes,
                   isPlaying, isLoaded, workletReady, disposes>>

\* decodeAudioData of asset a settles; with the last one Promise.all
\* resolves.
AssetDecoded(i, a, ok) ==
    /\ i \in 1..Len(inits)
    /\ inits[i].pc = "loadAudioAssets"
    /\ a \in 1..Len(inits[i].assets)
    /\ inits[i].assets[a].pc = "decode"
    /\ HostTurn
    /\ engCall' = [op |-> "init", threw |-> ~ok]
    /\ IF ~ok THEN Settle(i, "rejected")
       ELSE IF \A b \in (1..Len(inits[i].assets)) \ {a} : inits[i].assets[b].pc = "done"
            THEN inits' = [inits EXCEPT ![i].assets[a].pc = "done",
                                        ![i].pc = "assetsDecoded"]
       ELSE inits' = [inits EXCEPT ![i].assets[a].pc = "done"]
    /\ UNCHANGED <<audioContext, ctxs, foaBus, buses, binauralDecoder, decoderNodes,
                   masterGain, gainNodes, foaEncoders, audioBuffers, sourceNodes,
                   isPlaying, isLoaded, workletReady, disposes>>

\* loadAudioAssets goes on after `await Promise.all(...)`: the buffers are
\* stored, isLoaded is set, and it returns.
AssetsStored(i) ==
    /\ i \in 1..Len(inits)
    /\ inits[i].pc = "assetsDecoded"
    /\ engCall' = [op |-> "init", threw |-> FALSE]
    /\ audioBuffers' = [n \in 1..NUM_OBJECTS |-> n]
    /\ isLoaded' = TRUE
    /\ inits' = [inits EXCEPT ![i].pc = "assetsLoaded"]
    /\ UNCHANGED <<audioContext, ctxs, foaBus, buses, binauralDecoder, decoderNodes,
                   masterGain, gainNodes, foaEncoders, sourceNodes, isPlaying,
                   workletReady, disposes>>

\* init() goes on after `await this.loadAudioAssets()` and returns.
InitReturns(i) ==
    /\ i \in 1..Len(inits)
    /\ inits[i].pc = "assetsLoaded"
    /\ engCall' = [op |-> "init", threw |-> FALSE]
    /\ Settle(i, "resolved")
    /\ UNCHANGED <<audioContext, ctxs, foaBus, buses, binauralDecoder, decoderNodes,
                   masterGain, gainNodes, foaEncoders, audioBuffers, sourceNodes,
                   isPlaying, isLoaded, workletReady, disposes>>

\* play(): source.connect(this.gainNodes[index]) throws when there is no
\* such gain node, before anything is assigned.
Play ==
    /\ IF audioContext = 0 \/ ~isLoaded \/ isPlaying
          THEN /\ engCall' = [op |-> "play", threw |-> FALSE]
               /\ UNCHANGED <<sourceNodes, isPlaying>>
          ELSE IF Len(gainNodes) < Len(audioBuffers)
          THEN /\ engCall' = [op |-> "play", threw |-> TRUE]
               /\ UNCHANGED <<sourceNodes, isPlaying>>
          ELSE /\ engCall' = [op |-> "play", threw |-> FALSE]
               /\ sourceNodes' = [n \in 1..Len(audioBuffers) |->
                                     [buffer |-> audioBuffers[n], gain |-> n,
                                      ctx |-> audioContext, started |-> TRUE]]
               /\ isPlaying' = TRUE
    /\ UNCHANGED <<audioContext, ctxs, foaBus, buses, binauralDecoder, decoderNodes,
                   masterGain, gainNodes, foaEncoders, audioBuffers, isLoaded,
                   workletReady, inits, disposes>>

\* stop()
Stop ==
    /\ engCall' = [op |-> "stop", threw |-> FALSE]
    /\ IF ~isPlaying
          THEN UNCHANGED <<sourceNodes, isPlaying>>
          ELSE /\ sourceNodes' = <<>>
               /\ isPlaying' = FALSE
    /\ UNCHANGED <<audioContext, ctxs, foaBus, buses, binauralDecoder, decoderNodes,
                   masterGain, gainNodes, foaEncoders, audioBuffers, isLoaded,
                   workletReady, inits, disposes>>

\* dispose(): stop(), then every node is disconnected and dropped and the
\* context closed.
Dispose ==
    /\ disposes < MaxDisposes
    /\ disposes' = disposes + 1
    /\ engCall' = [op |-> "dispose", threw |-> FALSE]
    /\ sourceNodes' = <<>>
    /\ isPlaying' = FALSE
    /\ gainNodes' = <<>>
    /\ foaEncoders' = <<>>
    /\ binauralDecoder' = 0
    /\ foaBus' = 0
    /\ masterGain' = 0
    /\ ctxs' = IF audioContext = 0 THEN ctxs
               ELSE [ctxs EXCEPT ![audioContext].state = "closed"]
    /\ audioContext' = 0
    /\ audioBuffers' = <<>>
    /\ isLoaded' = FALSE
    /\ workletReady' = FALSE
    /\ buses' = IF foaBus = 0 THEN buses
                ELSE [buses EXCEPT ![foaBus].decoders = {}]
    /\ UNCHANGED <<decoderNodes, inits>>

\* ------------------------------------------------- control updates to a source
\* The UI thread maps a grid position to a direction and hands it to the
\* source's encoder node through its two AudioParams; the audio thread runs
\* the encoder's process() one block after the other.  The two threads run
\* side by side: a block can start between the two setValueAtTime calls of an
\* update, and an update can arrive between two samples of a block.
\* Grid positions are in halves (GridScale), degrees are integers, radians
\* are in the encoder's fixed-point unit, where pi is 4 * AngleScale.
GridScale == 2
AZIMUTH_RANGE == [min |-> -90, max |-> 90]
ELEVATION_RANGE == [min |-> -45, max |-> 45]
MaxLanded == 2

\* Math.max(0, Math.min(1, x))
Clamp01(x) == IF x < 0 THEN 0 ELSE IF x > GridScale THEN GridScale ELSE x

\* xToAzimuth(x): degrees
xToAzimuth(x) ==
    LET clamped == Clamp01(x)
    IN AZIMUTH_RANGE.min
         + (clamped * (AZIMUTH_RANGE.max - AZIMUTH_RANGE.min)) \div GridScale

\* yToElevation(y): degrees, the top of the grid being up
yToElevation(y) ==
    LET clamped == Clamp01(y)
    IN ELEVATION_RANGE.max
         - (clamped * (ELEVATION_RANGE.max - ELEVATION_RANGE.min)) \div GridScale

\* degToRad(deg) = (deg * Math.PI) / 180, cut to the fixed-point unit (toward
\* zero): the whole multiples of 9 degrees are PI / 20 each, the rest is
\* divided afterwards, which keeps the intermediate values small.
degToRad(deg) ==
    LET a == IF deg < 0 THEN 0 - deg ELSE deg
        v == (a \div 9) * (PI \div 20) + ((a % 9) * (PI \div 20)) \div 9
    IN IF deg < 0 THEN 0 - v ELSE v

VARIABLES
    ctlPc,             \* where updateObjectPosition is: "idle" or "elevation"
    ctlUpdate,         \* the radians and the position of the running (or last) update
    lastLanded,        \* the last update whose two parameters were both set
    landedSince,       \* the updates that landed since the last block start
    blkPc,             \* where process() is: "idle" or "samples"
    blkIn,             \* the input channel of the running block
    blkI,              \* the next sample of the running block
    blkTarget,         \* what the running block read from its parameters
    blkStart,          \* the smoothed direction and output the block started from
    blkSeen            \* the updates that had landed before the block started

ctlVars == <<ctlPc, ctlUpdate, lastLanded, landedSince,
             blkPc, blkIn, blkI, blkTarget, blkStart, blkSeen>>

CtlInit ==
    /\ ctlPc = "idle"
    /\ ctlUpdate = [index |-> 0, az |-> 0, el |-> 0, x |-> 1, y |-> 1]
    /\ lastLanded = [az |-> 0, el |-> 0, x |-> 1, y |-> 1]
    /\ landedSince = <<>>
    /\ blkPc = "idle"
    /\ blkIn = <<>>
    /\ blkI = 0
    /\ blkTarget = [az |-> 0, el |-> 0]
    /\ blkStart = [az |-> 0, el |-> 0, out |-> <<>>]
    /\ blkSeen = <<>>

SetElevation_Dropped(old, elRad) == old

\* elevation.setValueAtTime(elRad, currentTime): the value from now on.
SetElevation(old, elRad) == elRad

\* azimuth.setValueAtTime(azRad, currentTime)
SetAzimuth(old, azRad) == azRad

\* The engine's fields other than foaEncoders.  The audio thread is followed
\* for the encoder node of the first source, foaEncoders[0].
engOthers == <<audioContext, ctxs, foaBus, buses, binauralDecoder, decoderNodes,
               masterGain, gainNodes, audioBuffers, sourceNodes, isPlaying,
               isLoaded, workletReady, inits, disposes, engCall>>

\* updateObjectPosition(objectIndex, position), up to and including the
\* azimuth's setValueAtTime on this.foaEncoders[objectIndex].
UpdateObjectPosition(objectIndex, position) ==
    /\ ctlPc = "idle"
    /\ Len(landedSince) < MaxLanded
    /\ IF objectIndex < 0 \/ objectIndex >= Len(foaEncoders)
          THEN UNCHANGED <<foaEncoders, ctlPc, ctlUpdate>>
          ELSE LET azRad == degToRad(position.azimuth)
                   elRad == degToRad(position.elevation)
               IN /\ foaEncoders' = [foaEncoders EXCEPT ![objectIndex + 1].azimuth =
                                        SetAzimuth(@, azRad)]
                  /\ ctlUpdate' = [index |-> objectIndex, az |-> azRad, el |-> elRad,
                                   x |-> position.x, y |-> position.y]
                  /\ ctlPc' = "elevation"
    /\ UNCHANGED <<lastLanded, landedSince>>

\* The rest of updateObjectPosition: the elevation's setValueAtTime on the
\* same encoder.
UpdateObjectPositionEnd ==
    /\ ctlPc = "elevation"
    /\ foaEncoders' = [foaEncoders EXCEPT ![ctlUpdate.index + 1].elevation =
                          SetElevation(@, ctlUpdate.el)]
    /\ ctlPc' = "idle"
    /\ IF ctlUpdate.index = 0
          THEN /\ lastLanded' = ctlUpdate
               /\ landedSince' = Append(landedSince, ctlUpdate)
          ELSE UNCHANGED <<lastLanded, landedSince>>
    /\ UNCHANGED ctlUpdate

\* An ObjectPosition (x, y normalized, azimuth and elevation in degrees) as
\* this engine's caller builds it for the grid position (x, y): the angles
\* are those of xToAzimuth and yToElevation of its own constants.
WorkletPositionAt(x, y) ==
    [x |-> x, y |-> y, azimuth |-> xToAzimuth(x), elevation |-> yToElevation(y)]

SampleTarget_Live(field, param) == param

\* The target a sample smooths toward: this.targetAzimuth (this.targetElevation).
SampleTarget(field, param) == field

\* process() up to the sample loop: the channel test, then the parameters
\* are read into the target.
EncBlockStart(input, output) ==
    /\ blkPc = "idle"
    /\ Len(foaEncoders) > 0
    /\ LET node == foaEncoders[1]
           parameters ==
               [azimuth |-> <<ParamValue(node.azimuth, parameterDescriptors.azimuth)>>,
                elevation |-> <<ParamValue(node.elevation, parameterDescriptors.elevation)>>]
       IN /\ encCall' = [op |-> "process", input |-> input, output |-> output,
                         parameters |-> parameters, returned |-> TRUE]
          /\ encOutput' = output
          /\ IF EncTooFewChannels(input, output)
                THEN UNCHANGED <<targetAzimuth, targetElevation, blkPc, blkIn, blkI,
                                 blkTarget, blkStart, blkSeen, landedSince>>
                ELSE /\ encSamples + Len(input[1]) <= MaxEncSamples
                     /\ targetAzimuth' = parameters.azimuth[1]
                     /\ targetElevation' = parameters.elevation[1]
                     /\ blkPc' = "samples"
                     /\ blkIn' = input[1]
                     /\ blkI' = 0
                     /\ blkTarget' = [az |-> parameters.azimuth[1],
                                      el |-> parameters.elevation[1]]
                     /\ blkStart' = [az |-> currentAzimuth, el |-> currentElevation,
                                     out |-> output]
                     /\ blkSeen' = landedSince
                     /\ landedSince' = <<>>
    /\ UNCHANGED <<currentAzimuth, currentElevation, encSamples>>

\* One turn of the sample loop.
EncSample ==
    /\ blkPc = "samples"
    /\ blkI < Len(blkIn)
    /\ LET node == foaEncoders[1]
           tAz == SampleTarget(targetAzimuth,
                               ParamValue(node.azimuth, parameterDescriptors.azimuth))
           tEl == SampleTarget(targetElevation,
                               ParamValue(node.elevation, parameterDescriptors.elevation))
           az == Smooth(currentAzimuth, tAz)
           el == Smooth(currentElevation, tEl)
           f == EncodeSample(blkIn[blkI + 1], az, el)
       IN /\ SmoothExact(currentAzimuth, tAz)
          /\ SmoothExact(currentElevation, tEl)
          /\ currentAzimuth' = az
          /\ currentElevation' = el
          /\ encOutput' = [c \in 1..Len(encOutput) |->
                              IF c <= 4 THEN [encOutput[c] EXCEPT ![blkI + 1] = f[c]]
                              ELSE encOutput[c]]
    /\ blkI' = blkI + 1
    /\ encSamples' = encSamples + 1
    /\ UNCHANGED <<targetAzimuth, targetElevation, encCall, blkPc, blkIn,
                   blkTarget, blkStart, blkSeen>>

\* The loop is over: return true.
EncBlockEnd ==
    /\ blkPc = "samples"
    /\ blkI >= Len(blkIn)
    /\ blkPc' = "idle"
    /\ UNCHANGED <<encVars, blkIn, blkI, blkTarget, blkStart, blkSeen>>

\* ------------------------------------------------------- the application
\* App's state and handlers, the knobs of its channel mixer, and the gain
\* nodes and encoders of the engine App imports (audioEngine.ts): there is
\* none until init() creates them, and none after dispose().  A gain of 1.0
\* is GridScale; the positions App handles are in quarters of the grid
\* (PositionScale), the defaults being 0.25, 0.5 and 0.75 wide; the angles of
\* an encoder are whole degrees.  setGain and setMuted are the same in both
\* engines.
PositionScale == 4

\* export const DEFAULT_POSITIONS
DEFAULT_POSITIONS == <<[x |-> 1, y |-> 2], [x |-> 2, y |-> 2], [x |-> 3, y |-> 2]>>

VARIABLES
    gains,           \* App state: the gain each knob was last turned to
    muted,           \* App state: the mute switches
    positions,       \* App state: the grid position of each object
    isDragging,      \* the knobs (object indices) whose isDragging is true
    mouseListeners,  \* the knobs with mousemove and mouseup listeners on the window
    gainParams,      \* this.gainNodes: gainNodes[i].gain, the value last set
    encoders         \* this.encoders: azim and elev of each

appVars == <<gains, muted, positions, isDragging, mouseListeners>>
mixVars == <<gains, muted, positions, isDragging, mouseListeners, gainParams, encoders>>

\* useState(DEFAULT_POSITIONS.map(...)), useState(Array(NUM_OBJECTS).fill(1)),
\* useState(...fill(false)), useState(false) of every knob, no listener on
\* the window, and gainNodes = [], encoders = [].
MixInit ==
    /\ gains = [i \in 1..NUM_OBJECTS |-> GridScale]
    /\ muted = [i \in 1..NUM_OBJECTS |-> FALSE]
    /\ positions = [i \in 1..NUM_OBJECTS |-> DEFAULT_POSITIONS[i]]
    /\ isDragging = {}
    /\ mouseListeners = {}
    /\ gainParams = <<>>
    /\ encoders = <<>>

\* The gain nodes initAmbisonicChain creates: createGain() has gain 1.
CreateGainNodes == [i \in 1..NUM_OBJECTS |-> GridScale]

\* The encoders initAmbisonicChain creates: encoder.azim = 0, encoder.elev = 0.
CreateEncoders == [i \in 1..NUM_OBJECTS |-> [azim |-> 0, elev |-> 0]]

\* AudioEngine.setGain(objectIndex, gain), objectIndex from 0.
SetGain(params, objectIndex, gain) ==
    IF objectIndex < 0 \/ objectIndex >= Len(params) THEN params
    ELSE [params EXCEPT ![objectIndex + 1] = Clamp01(gain)]

\* AudioEngine.setMuted(objectIndex, muted)
SetMuted(params, objectIndex, m) ==
    IF objectIndex < 0 \/ objectIndex >= Len(params) THEN params
    ELSE [params EXCEPT ![objectIndex + 1] = IF m THEN 0 ELSE GridScale]

\* AudioEngine.updateObjectPosition(objectIndex, position) of audioEngine.ts:
\* the encoder is handed the position's degrees as they are.
HoaUpdateObjectPosition(encs, objectIndex, position) ==
    IF objectIndex < 0 \/ objectIndex >= Len(encs) THEN encs
    ELSE [encs EXCEPT ![objectIndex + 1] =
             [azim |-> position.azimuth, elev |-> position.elevation]]

\* Math.round(n / d) for d > 0: the nearest integer, a half going up.
MathRound(n, d) == (2 * n + d) \div (2 * d)

\* Math.max(0, Math.min(1, x)) of a position
ClampPosition(x) ==
    IF x < 0 THEN 0 ELSE IF x > PositionScale THEN PositionScale ELSE x

\* xToAzimuth(x) of the constants App imports: Math.round(360 * (0.5 - clamped))
HoaXToAzimuth(x) ==
    LET clamped == ClampPosition(x)
    IN MathRound(360 * (PositionScale - 2 * clamped), 2 * PositionScale)

\* yToElevation(y) of the constants App imports: Math.round(180 * (0.5 - clamped))
HoaYToElevation(y) ==
    LET clamped == ClampPosition(y)
    IN MathRound(180 * (PositionScale - 2 * clamped), 2 * PositionScale)

\* The ObjectPosition App.handlePositionChange hands to updateObjectPosition
\* for the grid position (x, y), x and y in quarters of the grid.
ObjectPositionAt(x, y) ==
    [x |-> x, y |-> y, azimuth |-> HoaXToAzimuth(x), elevation |-> HoaYToElevation(y)]

\* App.handlePositionChange(index, position), position = {x, y}
HandlePositionChange(index, position) ==
    /\ positions' = [positions EXCEPT ![index + 1] = position]
    /\ encoders' = HoaUpdateObjectPosition(encoders, index,
                                           ObjectPositionAt(position.x, position.y))
    /\ UNCHANGED <<gains, muted, isDragging, mouseListeners, gainParams>>

\* App.handleGainChange(index, gain) on st = [gains, gainParams]
HandleGainChangeOn(st, index, gain) ==
    [gains |-> [st.gains EXCEPT ![index + 1] = gain],
     gainParams |-> SetGain(st.gainParams, index, gain)]

\* App.handleGainChange(index, gain)
HandleGainChange(index, gain) ==
    /\ LET r == HandleGainChangeOn([gains |-> gains, gainParams |-> gainParams],
                                   index, gain)
       IN /\ gains' = r.gains
          /\ gainParams' = r.gainParams
    /\ UNCHANGED <<muted, positions, isDragging, mouseListeners, encoders>>

\* App.handleMuteToggle(index)
HandleMuteToggle(index) ==
    /\ muted' = [muted EXCEPT ![index + 1] = ~muted[index + 1]]
    /\ gainParams' = SetMuted(gainParams, index, ~muted[index + 1])
    /\ UNCHANGED <<gains, positions, isDragging, mouseListeners, encoders>>

\* What the strip of object index (from 0) shows on its knob.
KnobValue(index) == IF muted[index + 1] THEN 0 ELSE gains[index + 1]

\* The strip hands its knob disabled = isMuted.
KnobDisabled(index) == muted[index + 1]

\* RotaryKnob.handleMouseDown of the knob of object index: unless the knob is
\* disabled, setIsDragging(true), and a mousemove and a mouseup listener are
\* added to the window.
KnobMouseDown(index) ==
    /\ isDragging' = IF KnobDisabled(index) THEN isDragging
                     ELSE isDragging \cup {index}
    /\ mouseListeners' = IF KnobDisabled(index) THEN mouseListeners
                         ELSE mouseListeners \cup {index}
    /\ UNCHANGED <<gains, muted, positions, gainParams, encoders>>

\* The handleMouseMove closures of one mousemove on the window, from the knob
\* of object index on: each calls onChange with its new value, which is
\* within [0, 1]; neither disabled nor isDragging is looked at.
RECURSIVE MouseMoveLoop(_, _, _)
MouseMoveLoop(st, index, newValues) ==
    IF index >= NUM_OBJECTS THEN st
    ELSE MouseMoveLoop(IF index \in mouseListeners
                          THEN HandleGainChangeOn(st, index, newValues[index + 1])
                          ELSE st,
                       index + 1, newValues)

\* A mousemove on the window: every handleMouseMove that is registered runs.
WindowMouseMove(newValues) ==
    /\ LET r == MouseMoveLoop([gains |-> gains, gainParams |-> gainParams], 0, newValues)
       IN /\ gains' = r.gains
          /\ gainParams' = r.gainParams
    /\ UNCHANGED <<muted, positions, isDragging, mouseListeners, encoders>>

\* A mouseup on the window: every handleMouseUp that is registered runs,
\* setIsDragging(false) and both listeners of its knob removed.
WindowMouseUp ==
    /\ isDragging' = isDragging \ mouseListeners
    /\ mouseListeners' = {}
    /\ UNCHANGED <<gains, muted, positions, gainParams, encoders>>

\* RotaryKnob.handleTouchStart, handleStart: setIsDragging(true) unless the
\* knob is disabled.
KnobTouchStart(index) ==
    /\ isDragging' = IF KnobDisabled(index) THEN isDragging
                     ELSE isDragging \cup {index}
    /\ UNCHANGED <<gains, muted, positions, mouseListeners, gainParams, encoders>>

\* RotaryKnob.handleTouchMove, handleMove: while isDragging is true the move
\* calls onChange with the new value, which is within [0, 1]; disabled is
\* not looked at.
KnobTouchMove(index, newValue) ==
    IF index \in isDragging
       THEN HandleGainChange(index, newValue)
       ELSE UNCHANGED mixVars

\* RotaryKnob.handleTouchEnd, handleEnd: setIsDragging(false); the listeners
\* on the window stay.
KnobTouchEnd(index) ==
    /\ isDragging' = isDragging \ {index}
    /\ UNCHANGED <<gains, muted, positions, mouseListeners, gainParams, encoders>>

\* ------------------------------------------- the engine with HRIR selection
\* class AudioEngine of audioEngine.ts (JSAmbisonics chain), as far as the
\* decoder's filters go.  init() creates the context and the whole chain
\* without being suspended, so this.audioContext is set exactly when
\* this.decoder is; decoders are numbered in order of creation, 0 is null.
\* HOAloader is the library's: it hands the decoded filters to its callback at
\* most once, at a time of the network's choosing, or never.  The timers all
\* wait 5000 ms, so they expire in the order they were set.
MaxHoaLoads == 3
MaxHoaInits == 2
MaxHoaDisposes == 1
\* The assets loadAudioAssets loads: AUDIO_ASSETS has one per object.
MaxHoaAssets == 1
DefaultFilters == -1

HRIR_OPTIONS ==
    <<[order |-> 3, url |-> "/audio/hrir/HOA3_IRC_1008_virtual.wav"],
      [order |-> 3, url |-> "/audio/hrir/aalto2016_N3.wav"],
      [order |-> 3, url |-> "/audio/hrir/HOA3_BRIRs-medium.wav"]>>

VARIABLES
    decoder,           \* this.decoder: 0, or the decoder's number
    binDecoders,       \* the decoders created: the option whose filters each holds
    currentHRIRIndex,
    filtersLoaded,
    hoaIsLoaded,       \* this.isLoaded
    hoaLoads,          \* the loads started: [option, callback, timer, init]
    hoaInits,          \* the init() calls made: [pc, assets]
    hoaDisposes,
    hoaCall            \* the last method or callback that ran, and whether it threw

hoaVars == <<decoder, binDecoders, currentHRIRIndex, filtersLoaded, hoaIsLoaded,
             hoaLoads, hoaInits, hoaDisposes, hoaCall>>

HoaInit ==
    /\ decoder = 0
    /\ binDecoders = <<>>
    /\ currentHRIRIndex = 2
    /\ filtersLoaded = FALSE
    /\ hoaIsLoaded = FALSE
    /\ hoaLoads = <<>>
    /\ hoaInits = <<>>
    /\ hoaDisposes = 0
    /\ hoaCall = [op |-> "constructor", threw |-> FALSE]

\* loadHRIRFilters(HRIR_OPTIONS[optionIndex]) up to its return, on st =
\* [decoder, filters, loaded, loads]; init is the init() call that awaits
\* it, 0 when setHRIR does.  st.started tells whether a load was started.
LoadHRIRFilters(st, optionIndex, init) ==
    IF st.decoder = 0 THEN [st EXCEPT !.started = FALSE]
    ELSE IF HRIR_OPTIONS[optionIndex + 1].url = ""
         THEN [st EXCEPT !.filters[st.decoder] = DefaultFilters,
                         !.loaded = TRUE, !.started = FALSE]
    ELSE [st EXCEPT !.loads = Append(@, [option |-> optionIndex,
                                          callback |-> "pending",
                                          timer |-> "pending",
                                          init |-> init]),
                    !.started = TRUE]

\* The continuations that run as microtasks, before the host delivers its
\* next event: init() after initAmbisonicChain, loadHRIRFilters or
\* loadAudioAssets returned, and loadAudioAssets after Promise.all resolved.
HoaMicrotaskPcs == {"chainBuilt", "filtersReturned", "assetsDecoded", "assetsLoaded"}
HoaHostTurn == \A j \in 1..Len(hoaInits) : hoaInits[j].pc \notin HoaMicrotaskPcs

HoaAt(pc) == [pc |-> pc, assets |-> <<>>]
HoaSettle(i, pc) == [hoaInits EXCEPT ![i] = HoaAt(pc)]

\* The loads started and those an init() is about to start.
LoadsClaimed ==
    Len(hoaLoads) + Cardinality({j \in 1..Len(hoaInits) : hoaInits[j].pc = "chainBuilt"})

\* init(): with a context it returns, after resume() when the context is
\* suspended; else it creates the context and builds the chain.
HoaInitCall(suspended) ==
    /\ Len(hoaInits) < MaxHoaInits
    /\ LoadsClaimed < MaxHoaLoads
    /\ hoaCall' = [op |-> "init", threw |-> FALSE]
    /\ IF decoder # 0
          THEN /\ hoaInits' = Append(hoaInits,
                                     HoaAt(IF suspended THEN "resume" ELSE "resolved"))
               /\ UNCHANGED <<decoder, binDecoders, gainParams, encoders>>
          ELSE /\ decoder' = Len(binDecoders) + 1
               /\ binDecoders' = Append(binDecoders, DefaultFilters)
               /\ gainParams' = CreateGainNodes
               /\ encoders' = CreateEncoders
               /\ hoaInits' = Append(hoaInits, HoaAt("chainBuilt"))
    /\ UNCHANGED <<currentHRIRIndex, filtersLoaded, hoaIsLoaded, hoaLoads, hoaDisposes>>

\* await this.audioContext.resume() settles; init() returns.
HoaResumeSettles(i, ok) ==
    /\ i \in 1..Len(hoaInits)
    /\ hoaInits[i].pc = "resume"
    /\ HoaHostTurn
    /\ hoaCall' = [op |-> "init", threw |-> ~ok]
    /\ hoaInits' = HoaSettle(i, IF ok THEN "resolved" ELSE "rejected")
    /\ UNCHANGED <<decoder, binDecoders, currentHRIRIndex, filtersLoaded,
                   hoaIsLoaded, hoaLoads, hoaDisposes>>

\* init() goes on after `await this.initAmbisonicChain(...)` and calls
\* loadHRIRFilters for the current option.
ChainBuilt(i) ==
    /\ i \in 1..Len(hoaInits)
    /\ hoaInits[i].pc = "chainBuilt"
    /\ hoaCall' = [op |-> "init", threw |-> FALSE]
    /\ \E st \in {LoadHRIRFilters(
                    [decoder |-> decoder, filters |-> binDecoders,
                     loaded |-> filtersLoaded, loads |-> hoaLoads,
                     started |-> FALSE],
                    currentHRIRIndex, i)} :
          /\ binDecoders' = st.filters
          /\ filtersLoaded' = st.loaded
          /\ hoaLoads' = st.loads
          /\ hoaInits' = HoaSettle(i, IF st.started THEN "loadHRIRFilters"
                                      ELSE "filtersReturned")
    /\ UNCHANGED <<decoder, currentHRIRIndex, hoaIsLoaded, hoaDisposes>>

\* setHRIR(hrirIndex) up to its await.
SetHRIRCall(hrirIndex) ==
    /\ LoadsClaimed < MaxHoaLoads
    /\ hoaCall' = [op |-> "setHRIR", threw |-> FALSE]
    /\ IF hrirIndex < 0 \/ hrirIndex >= Len(HRIR_OPTIONS)
          THEN UNCHANGED <<currentHRIRIndex, filtersLoaded, binDecoders, hoaLoads>>
          ELSE \E st \in {LoadHRIRFilters(
                            [decoder |-> decoder, filters |-> binDecoders,
                             loaded |-> FALSE, loads |-> hoaLoads,
                             started |-> FALSE],
                            hrirIndex, 0)} :
                  /\ currentHRIRIndex' = hrirIndex
                  /\ filtersLoaded' = st.loaded
                  /\ binDecoders' = st.filters
                  /\ hoaLoads' = st.loads
    /\ UNCHANGED <<decoder, hoaIsLoaded, hoaInits, hoaDisposes>>

\* The promise of load k is resolved: the init() that awaits it will go on.
ResolveLoad(k) ==
    IF hoaLoads[k].init # 0 /\ hoaInits[hoaLoads[k].init].pc = "loadHRIRFilters"
       THEN HoaSettle(hoaLoads[k].init, "filtersReturned")
       ELSE hoaInits

\* The loader's callback of load k: this.decoder!.updateFilters(buffer) is a
\* TypeError when this.decoder is null.
LoaderCallback(k) ==
    /\ k \in 1..Len(hoaLoads)
    /\ hoaLoads[k].callback = "pending"
    /\ HoaHostTurn
    /\ IF decoder = 0
          THEN /\ hoaLoads' = [hoaLoads EXCEPT ![k].callback = "threw"]
               /\ hoaCall' = [op |-> "callback", threw |-> TRUE]
               /\ UNCHANGED <<binDecoders, filtersLoaded, hoaInits>>
          ELSE /\ hoaLoads' = [hoaLoads EXCEPT ![k].callback = "applied"]
               /\ hoaCall' = [op |-> "callback", threw |-> FALSE]
               /\ binDecoders' = [binDecoders EXCEPT ![decoder] = hoaLoads[k].option]
               /\ filtersLoaded' = TRUE
               /\ hoaInits' = ResolveLoad(k)
    /\ UNCHANGED <<decoder, currentHRIRIndex, hoaIsLoaded, hoaDisposes>>

\* The timer of load k expires.
LoadTimeout(k) ==
    /\ k \in 1..Len(hoaLoads)
    /\ hoaLoads[k].timer = "pending"
    /\ \A j \in 1..(k - 1) : hoaLoads[j].timer = "expired"
    /\ HoaHostTurn
    /\ hoaLoads' = [hoaLoads EXCEPT ![k].timer = "expired"]
    /\ hoaCall' = [op |-> "timeout", threw |-> FALSE]
    /\ IF ~filtersLoaded
          THEN /\ filtersLoaded' = TRUE
               /\ hoaInits' = ResolveLoad(k)
          ELSE UNCHANGED <<filtersLoaded, hoaInits>>
    /\ UNCHANGED <<decoder, binDecoders, currentHRIRIndex, hoaIsLoaded, hoaDisposes>>

\* init() goes on after `await this.loadHRIRFilters(...)` and calls
\* loadAudioAssets, which throws when there is no context and else starts
\* the fetches.
FiltersReturned(i) ==
    /\ i \in 1..Len(hoaInits)
    /\ hoaInits[i].pc = "filtersReturned"
    /\ hoaCall' = [op |-> "init", threw |-> decoder = 0]
    /\ hoaInits' = [hoaInits EXCEPT ![i] =
                       IF decoder = 0 THEN HoaAt("rejected")
                       ELSE [pc |-> "loadAudioAssets",
                             assets |-> [a \in 1..MaxHoaAssets |->
                                           [pc |-> "fetch", ctx |-> 0]]]]
    /\ UNCHANGED <<decoder, binDecoders, currentHRIRIndex, filtersLoaded,
                   hoaIsLoaded, hoaLoads, hoaDisposes>>

\* loadAudioAssets: the fetch of asset a settles, ok when it resolved with a
\* response that is ok; response.arrayBuffer() is then called.
HoaAssetFetched(i, a, ok) ==
    /\ i \in 1..Len(hoaInits)
    /\ hoaInits[i].pc = "loadAudioAssets"
    /\ a \in 1..Len(hoaInits[i].assets)
    /\ hoaInits[i].assets[a].pc = "fetch"
    /\ HoaHostTurn
    /\ hoaCall' = [op |-> "init", threw |-> ~ok]
    /\ hoaInits' = IF ok THEN [hoaInits EXCEPT ![i].assets[a].pc = "arrayBuffer"]
                   ELSE HoaSettle(i, "rejected")
    /\ UNCHANGED <<decoder, binDecoders, currentHRIRIndex, filtersLoaded,
                   hoaIsLoaded, hoaLoads, hoaDisposes>>

\* response.arrayBuffer() of asset a settles; decodeAudioData is then called
\* on this.audioContext as it is now, a TypeError when that is null.  The
\* first asset to fail rejects init(); the
\* chains still running can no longer reach the engine and are dropped.
HoaAssetBuffered(i, a, ok) ==
    /\ i \in 1..Len(hoaInits)
    /\ hoaInits[i].pc = "loadAudioAssets"
    /\ a \in 1..Len(hoaInits[i].assets)
    /\ hoaInits[i].assets[a].pc = "arrayBuffer"
    /\ HoaHostTurn
    /\ hoaCall' = [op |-> "init", threw |-> ~ok \/ decoder = 0]
    /\ hoaInits' = IF ok /\ decoder # 0
                      THEN [hoaInits EXCEPT ![i].assets[a] =
                               [pc |-> "decode", ctx |-> decoder]]
                      ELSE HoaSettle(i, "rejected")
    /\ UNCHANGED <<decoder, binDecoders, currentHRIRIndex, filtersLoaded,
                   hoaIsLoaded, hoaLoads, hoaDisposes>>

\* decodeAudioData of asset a settles; with the last one Promise.all
\* resolves.
HoaAssetDecoded(i, a, ok) ==
    /\ i \in 1..Len(hoaInits)
    /\ hoaInits[i].pc = "loadAudioAssets"
    /\ a \in 1..Len(hoaInits[i].assets)
    /\ hoaInits[i].assets[a].pc = "decode"
    /\ HoaHostTurn
    /\ hoaCall' = [op |-> "init", threw |-> ~ok]
    /\ hoaInits' =
          IF ~ok THEN HoaSettle(i, "rejected")
          ELSE IF \A b \in (1..Len(hoaInits[i].assets)) \ {a} :
                     hoaInits[i].assets[b].pc = "done"
               THEN [hoaInits EXCEPT ![i].assets[a].pc = "done",
                                     ![i].pc = "assetsDecoded"]
          ELSE [hoaInits EXCEPT ![i].assets[a].pc = "done"]
    /\ UNCHANGED <<decoder, binDecoders, currentHRIRIndex, filtersLoaded,
                   hoaIsLoaded, hoaLoads, hoaDisposes>>

\* loadAudioAssets goes on after `await Promise.all(...)`: isLoaded is set.
HoaAssetsStored(i) ==
    /\ i \in 1..Len(hoaInits)
    /\ hoaInits[i].pc = "assetsDecoded"
    /\ hoaCall' = [op |-> "init", threw |-> FALSE]
    /\ hoaIsLoaded' = TRUE
    /\ hoaInits' = [hoaInits EXCEPT ![i].pc = "assetsLoaded"]
    /\ UNCHANGED <<decoder, binDecoders, currentHRIRIndex, filtersLoaded,
                   hoaLoads, hoaDisposes>>

\* init() goes on after `await this.loadAudioAssets()` and returns.
HoaInitReturns(i) ==
    /\ i \in 1..Len(hoaInits)
    /\ hoaInits[i].pc = "assetsLoaded"
    /\ hoaCall' = [op |-> "init", threw |-> FALSE]
    /\ hoaInits' = HoaSettle(i, "resolved")
    /\ UNCHANGED <<decoder, binDecoders, currentHRIRIndex, filtersLoaded,
                   hoaIsLoaded, hoaLoads, hoaDisposes>>

\* dispose()
HoaDispose ==
    /\ hoaDisposes < MaxHoaDisposes
    /\ hoaDisposes' = hoaDisposes + 1
    /\ hoaCall' = [op |-> "dispose", threw |-> FALSE]
    /\ decoder' = 0
    /\ gainParams' = <<>>
    /\ encoders' = <<>>
    /\ hoaIsLoaded' = FALSE
    /\ filtersLoaded' = FALSE
    /\ UNCHANGED <<binDecoders, currentHRIRIndex, hoaLoads, hoaInits>>

\* get ready()
HoaReady == hoaIsLoaded /\ filtersLoaded

\* ------------------------------------------------ the worklets' environment
\* FOA frames [W, Y, Z, X] the bus can carry, and the blocks made of them.
DecFrames == {<<0, 0, 0, 0>>, <<1, 2, -1, 3>>}
DecBlocks == UNION {[1..n -> DecFrames] : n \in 1..MaxBlock}

\* inputs[0] with nCh channels carrying the frames fs (channel c of frame i).
Channels(nCh, fs) == [c \in 1..nCh |-> [i \in 1..Len(fs) |-> fs[i][c]]]
\* outputs[0] as the host hands it over: nCh channels of n silent samples.
HostOutput(nCh, n) == [c \in 1..nCh |-> [i \in 1..n |-> Silence]]

\* Initialization payloads: two correctly shaped ones and a truncated one.
HrirA == [i \in 1..(NUM_SPEAKERS * 2 * HRIR_LENGTH) |-> ((i * 3) % 5) - 2]
HrirB == [i \in 1..(NUM_SPEAKERS * 2 * HRIR_LENGTH) |-> (i % 3) - 1]
MatA == [i \in 1..(NUM_SPEAKERS * 4) |-> ((i * 2) % 3) - 1]
MatB == [i \in 1..(NUM_SPEAKERS * 4) |-> 2 - (i % 4)]
Messages ==
    { [type |-> "setHRIR", hrirData |-> HrirA, decodeMatrix |-> MatA],
      [type |-> "setHRIR", hrirData |-> HrirB, decodeMatrix |-> MatB],
      [type |-> "setHRIR", hrirData |-> SubSeq(HrirA, 1, Len(HrirA) - 1),
                           decodeMatrix |-> SubSeq(MatA, 1, Len(MatA) - 1)],
      [type |-> "ping", hrirData |-> HrirB, decodeMatrix |-> MatB] }

\* The (inputs[0], outputs[0]) pairs process() is called with: the regular
\* 4-in/2-out call for every block, and calls with too few channels.
ShortBlocks == {<<<<1, 2, -1, 3>>>>, <<<<0, 0, 0, 0>>, <<1, 2, -1, 3>>>>}
DecCalls ==
    { [input |-> Channels(4, fs), output |-> HostOutput(2, Len(fs))] : fs \in DecBlocks }
    \cup { [input |-> Channels(3, fs), output |-> HostOutput(2, Len(fs))] : fs \in ShortBlocks }
    \cup { [input |-> <<>>, output |-> HostOutput(2, MaxBlock)] }
    \cup { [input |-> Channels(4, fs), output |-> HostOutput(1, Len(fs))] : fs \in ShortBlocks }

\* Mono blocks and k-rate parameter values the encoder can be handed.
EncSamplesIn == {0, 1}
EncBlocks == UNION {[1..n -> EncSamplesIn] : n \in 1..MaxBlock}
AzTargets == {0, 2 * AngleScale}
ElTargets == {0 - AngleScale, 0}
EncParams == { [azimuth |-> <<az>>, elevation |-> <<el>>] : az \in AzTargets, el \in ElTargets }
\* The encoder's outputs[0] as the host hands it over.
EncHostOutput(nCh, n) == [c \in 1..nCh |-> [i \in 1..n |-> Num(0)]]
EncCalls ==
    { [input |-> <<b>>, output |-> EncHostOutput(4, Len(b))] : b \in EncBlocks }
    \cup { [input |-> <<>>, output |-> EncHostOutput(4, MaxBlock)] }
    \cup { [input |-> <<b>>, output |-> EncHostOutput(3, Len(b))] : b \in {<<1>>, <<0, 1>>} }

vars == <<proc, decVars, encVars, loadVars, genVars, engVars, ctlVars, mixVars,
         hoaVars>>

\* One worklet processor instance, of either registered class.
Init ==
    /\ proc \in {"foa-binaural-decoder", "foa-encoder"}
    /\ DecInit
    /\ EncInit
    /\ LoadInit
    /\ GenInit
    /\ EngInit
    /\ CtlInit
    /\ MixInit
    /\ HoaInit

DecMessageStep ==
    /\ \E data \in Messages : OnMessage(data)
    /\ UNCHANGED <<proc, hoaVars, mixVars, genVars, encVars, loadVars, engVars, ctlVars>>

DecProcessStep ==
    /\ \E c \in DecCalls : DecProcess(c.input, c.output)
    /\ UNCHANGED <<proc, hoaVars, mixVars, genVars, encVars, loadVars, engVars, ctlVars>>

EncProcessStep ==
    /\ \E c \in EncCalls, p \in EncParams : EncProcess(c.input, c.output, p)
    /\ UNCHANGED <<proc, hoaVars, mixVars, genVars, decVars, loadVars, engVars, ctlVars>>

Next == DecMessageStep \/ DecProcessStep \/ EncProcessStep

Spec == Init /\ [][Next]_vars

\* The main thread's HRIR loading, with no worklet processor running.
SampleRates == {44100, 48000}
FetchOutcomes == {"ok", "rejected", "notOk"}
BodyOutcomes == {"ok", "rejected", "writeFailed"}

InitLoader ==
    /\ proc = "none"
    /\ DecInit
    /\ EncInit
    /\ LoadInit
    /\ GenInit
    /\ EngInit
    /\ CtlInit
    /\ MixInit
    /\ HoaInit

LoadCallStep ==
    /\ \E sr \in SampleRates : LoadCall(sr)
    /\ UNCHANGED <<proc, hoaVars, mixVars, genVars, decVars, encVars, engVars, ctlVars>>

InitLibStep ==
    /\ \E ok \in BOOLEAN : InitLibSettles(ok)
    /\ UNCHANGED <<proc, hoaVars, mixVars, genVars, decVars, encVars, engVars, ctlVars>>

FetchStep ==
    /\ \E o \in FetchOutcomes : FetchSettles(o)
    /\ UNCHANGED <<proc, hoaVars, mixVars, genVars, decVars, encVars, engVars, ctlVars>>

BodyStep ==
    /\ \E o \in BodyOutcomes, ds \in Datasets : BodySettles(o, ds)
    /\ UNCHANGED <<proc, hoaVars, mixVars, genVars, decVars, encVars, engVars, ctlVars>>

NextLoader == LoadCallStep \/ InitLibStep \/ FetchStep \/ BodyStep

SpecLoader == InitLoader /\ [][NextLoader]_vars


\* The engine's clients and environment: the methods are called in any
\* order, and every pending await settles one way or the other.
ContextStates == {"running", "suspended"}

InitEngine ==
    /\ proc = "engine"
    /\ DecInit
    /\ EncInit
    /\ LoadInit
    /\ GenInit
    /\ EngInit
    /\ CtlInit
    /\ MixInit
    /\ HoaInit

InitCallStep ==
    /\ \E s \in ContextStates : InitCall(s)
    /\ UNCHANGED <<proc, hoaVars, mixVars, genVars, decVars, encVars, loadVars, ctlVars>>

ResumeStep(i) ==
    /\ ResumeSettles(i)
    /\ UNCHANGED <<proc, hoaVars, mixVars, genVars, decVars, encVars, loadVars, ctlVars>>

EncoderModuleStep(i) ==
    /\ \E ok \in BOOLEAN : EncoderModuleSettles(i, ok)
    /\ UNCHANGED <<proc, hoaVars, mixVars, genVars, decVars, encVars, loadVars, ctlVars>>

DecoderModuleStep(i) ==
    /\ \E ok \in BOOLEAN : DecoderModuleSettles(i, ok)
    /\ UNCHANGED <<proc, hoaVars, mixVars, genVars, decVars, encVars, loadVars, ctlVars>>

LoadSOFAStep(i) ==
    /\ \E r \in LoaderResults : LoadSOFASettles(i, r)
    /\ UNCHANGED <<proc, hoaVars, mixVars, genVars, decVars, encVars, loadVars, ctlVars>>

WorkletsRegisteredStep(i) ==
    /\ WorkletsRegistered(i)
    /\ UNCHANGED <<proc, hoaVars, mixVars, genVars, decVars, encVars, loadVars, ctlVars>>

AssetFetchedStep(i) ==
    /\ \E a \in 1..NUM_OBJECTS, ok \in BOOLEAN : AssetFetched(i, a, ok)
    /\ UNCHANGED <<proc, hoaVars, mixVars, genVars, decVars, encVars, loadVars, ctlVars>>

AssetBufferedStep(i) ==
    /\ \E a \in 1..NUM_OBJECTS, ok \in BOOLEAN : AssetBuffered(i, a, ok)
    /\ UNCHANGED <<proc, hoaVars, mixVars, genVars, decVars, encVars, loadVars, ctlVars>>

AssetDecodedStep(i) ==
    /\ \E a \in 1..NUM_OBJECTS, ok \in BOOLEAN : AssetDecoded(i, a, ok)
    /\ UNCHANGED <<proc, hoaVars, mixVars, genVars, decVars, encVars, loadVars, ctlVars>>

AssetsStoredStep(i) ==
    /\ AssetsStored(i)
    /\ UNCHANGED <<proc, hoaVars, mixVars, genVars, decVars, encVars, loadVars, ctlVars>>

InitReturnsStep(i) ==
    /\ InitReturns(i)
    /\ UNCHANGED <<proc, hoaVars, mixVars, genVars, decVars, encVars, loadVars, ctlVars>>

PlayStep ==
    /\ Play
    /\ UNCHANGED <<proc, hoaVars, mixVars, genVars, decVars, encVars, loadVars, ctlVars>>

StopStep ==
    /\ Stop
    /\ UNCHANGED <<proc, hoaVars, mixVars, genVars, decVars, encVars, loadVars, ctlVars>>

DisposeStep ==
    /\ Dispose
    /\ UNCHANGED <<proc, hoaVars, mixVars, genVars, decVars, encVars, loadVars, ctlVars>>

NextEngine ==
    \/ InitCallStep
    \/ \E i \in 1..MaxInits : ResumeStep(i)
    \/ \E i \in 1..MaxInits : EncoderModuleStep(i)
    \/ \E i \in 1..MaxInits : DecoderModuleStep(i)
    \/ \E i \in 1..MaxInits : LoadSOFAStep(i)
    \/ \E i \in 1..MaxInits : WorkletsRegisteredStep(i)
    \/ \E i \in 1..MaxInits : AssetFetchedStep(i)
    \/ \E i \in 1..MaxInits : AssetBufferedStep(i)
    \/ \E i \in 1..MaxInits : AssetDecodedStep(i)
    \/ \E i \in 1..MaxInits : AssetsStoredStep(i)
    \/ \E i \in 1..MaxInits : InitReturnsStep(i)
    \/ PlayStep
    \/ StopStep
    \/ DisposeStep

SpecEngine == InitEngine /\ [][NextEngine]_vars

\* The same, where the event loop runs every continuation whose await the
\* platform settles by itself; the dataset's load is the network's, and may
\* never settle.
SpecEngineFair ==
    /\ SpecEngine
    /\ \A i \in 1..MaxInits :
          /\ WF_vars(ResumeStep(i))
          /\ WF_vars(EncoderModuleStep(i))
          /\ WF_vars(DecoderModuleStep(i))
          /\ WF_vars(WorkletsRegisteredStep(i))
          /\ WF_vars(AssetFetchedStep(i))
          /\ WF_vars(AssetBufferedStep(i))
          /\ WF_vars(AssetDecodedStep(i))
          /\ WF_vars(AssetsStoredStep(i))
          /\ WF_vars(InitReturnsStep(i))


\* One source: the pointer drags it over the grid (also past the grid's
\* edges, and for an object that has no encoder) while the audio thread runs
\* its encoder.  A pointer position is (clientX - rect.left) / rect.width and
\* (clientY - rect.top) / rect.height, in halves.
PointerMoves ==
    { [index |-> 0, px |-> -1, py |-> 3], [index |-> 0, px |-> 0, py |-> 0],
      [index |-> 0, px |-> 1, py |-> 1], [index |-> 0, px |-> 2, py |-> 2],
      [index |-> 0, px |-> 3, py |-> -1], [index |-> 1, px |-> 1, py |-> 0] }

\* getPositionFromClient(clientX, clientY): the pointer's position kept on
\* the grid.
getPositionFromClient(px, py) ==
    [x |-> IF px < 0 THEN 0 ELSE IF px > GridScale THEN GridScale ELSE px,
     y |-> IF py < 0 THEN 0 ELSE IF py > GridScale THEN GridScale ELSE py]

\* handleMouseMove, handleTouchMove: onPositionChange(index, pos)
UiMoves ==
    { [index |-> mv.index, x |-> getPositionFromClient(mv.px, mv.py).x,
       y |-> getPositionFromClient(mv.px, mv.py).y] : mv \in PointerMoves }
\* The blocks the host hands the source's encoder, and a call with too few
\* output channels.
CtlCalls ==
    { [input |-> <<b>>, output |-> EncHostOutput(4, Len(b))] : b \in {<<1>>, <<0, 1>>} }
    \cup { [input |-> <<<<1>>>>, output |-> EncHostOutput(3, 1)] }

\* The engine once an init() has run to its end: context 1, the bus with its
\* decoder holding the built-in set, a gain node and an encoder per object,
\* every asset decoded.
EngReady ==
    /\ audioContext = 1
    /\ ctxs = <<[state |-> "suspended",
                 modules |-> {"foa-encoder", "foa-binaural-decoder"}]>>
    /\ foaBus = 1
    /\ buses = <<[ctx |-> 1, decoders |-> {1}]>>
    /\ binauralDecoder = 1
    /\ decoderNodes = PostSetHRIR(<<[ctx |-> 1, posted |-> <<>>]>>, 1, CatchFallback.value)
    /\ masterGain = 1
    /\ gainNodes = [n \in 1..NUM_OBJECTS |-> [bus |-> 1]]
    /\ foaEncoders = [n \in 1..NUM_OBJECTS |-> EncoderNode(1)]
    /\ audioBuffers = [n \in 1..NUM_OBJECTS |-> n]
    /\ sourceNodes = <<>>
    /\ isPlaying = FALSE
    /\ isLoaded = TRUE
    /\ workletReady = TRUE
    /\ inits = <<[pc |-> "resolved", ctx |-> 1, assets |-> <<>>]>>
    /\ disposes = 0
    /\ engCall = [op |-> "init", threw |-> FALSE]

\* The application is either before its init() or after it.
InitControl ==
    /\ proc = "control"
    /\ DecInit
    /\ EncInit
    /\ LoadInit
    /\ GenInit
    /\ (EngInit \/ EngReady)
    /\ CtlInit
    /\ MixInit
    /\ HoaInit

UpdateObjectPositionStep ==
    /\ \E mv \in UiMoves : UpdateObjectPosition(mv.index, WorkletPositionAt(mv.x, mv.y))
    /\ UNCHANGED <<proc, hoaVars, mixVars, genVars, decVars, encVars, loadVars, engOthers,
                   blkPc, blkIn, blkI, blkTarget, blkStart, blkSeen>>

UpdateObjectPositionEndStep ==
    /\ UpdateObjectPositionEnd
    /\ UNCHANGED <<proc, hoaVars, mixVars, genVars, decVars, encVars, loadVars, engOthers,
                   blkPc, blkIn, blkI, blkTarget, blkStart, blkSeen>>

EncBlockStartStep ==
    /\ \E c \in CtlCalls : EncBlockStart(c.input, c.output)
    /\ UNCHANGED <<proc, hoaVars, mixVars, genVars, decVars, loadVars, engVars,
                   ctlPc, ctlUpdate, lastLanded>>

EncSampleStep ==
    /\ EncSample
    /\ UNCHANGED <<proc, hoaVars, mixVars, genVars, decVars, loadVars, engVars,
                   ctlPc, ctlUpdate, lastLanded, landedSince>>

EncBlockEndStep ==
    /\ EncBlockEnd
    /\ UNCHANGED <<proc, hoaVars, mixVars, genVars, decVars, loadVars, engVars,
                   ctlPc, ctlUpdate, lastLanded, landedSince>>

NextControl ==
    \/ UpdateObjectPositionStep
    \/ UpdateObjectPositionEndStep
    \/ EncBlockStartStep
    \/ EncSampleStep
    \/ EncBlockEndStep

SpecControl == InitControl /\ [][NextControl]_vars

\* The mapping on its own: updateObjectPosition called with any position,
\* xToAzimuth and yToElevation taking any number, also one off the grid.
AnyPositions == {-1, 0, 1, 2, 3}

InitRange ==
    /\ proc = "range"
    /\ DecInit
    /\ EncInit
    /\ LoadInit
    /\ GenInit
    /\ (EngInit \/ EngReady)
    /\ CtlInit
    /\ MixInit
    /\ HoaInit

AnyPositionStep ==
    /\ \E index \in {0, 1, NUM_OBJECTS}, x \in AnyPositions, y \in AnyPositions :
            UpdateObjectPosition(index, WorkletPositionAt(x, y))
    /\ UNCHANGED <<proc, hoaVars, mixVars, genVars, decVars, encVars, loadVars, engOthers,
                   blkPc, blkIn, blkI, blkTarget, blkStart, blkSeen>>

NextRange == AnyPositionStep \/ UpdateObjectPositionEndStep

SpecRange == InitRange /\ [][NextRange]_vars


\* The worklets fed by the engine's own producers: the decoder is sent the
\* payload loadSOFAHRIRs resolved with (built-in, or extracted from a dataset
\* with filters of full, of shorter or of longer length) and decodes frames
\* that carry
\* one FOA channel each.
ChainSources ==
    { [kind |-> "builtin", ds |-> NoEnv.ds],
      [kind |-> "sofa", ds |-> [id |-> 1, err |-> 0, len |-> HRIR_LENGTH, failAt |-> -1]],
      [kind |-> "sofa", ds |-> [id |-> 1, err |-> 0, len |-> HRIR_LENGTH - 1, failAt |-> -1]],
      [kind |-> "sofa", ds |-> [id |-> 1, err |-> 0, len |-> HRIR_LENGTH + 1, failAt |-> -1]] }

ChainPayload(src) ==
    IF src.kind = "builtin" THEN CatchFallback.value
    ELSE OpenAndExtract(src.ds).settle.value

ChainFrames == {<<1, 0, 0, 0>>, <<0, 1, 0, 0>>, <<0, 0, 1, 0>>, <<0, 0, 0, 1>>}
ChainCalls ==
    { [input |-> Channels(4, <<f>>), output |-> HostOutput(2, 1)] : f \in ChainFrames }
    \cup { [input |-> Channels(4, <<<<0, 1, 0, 0>>, <<0, 0, 0, 1>>>>),
            output |-> HostOutput(2, 2)] }

ChainMessageStep ==
    /\ \E src \in ChainSources : OnMessage(SetHRIRMessage(ChainPayload(src)))
    /\ UNCHANGED <<proc, hoaVars, mixVars, genVars, encVars, loadVars, engVars, ctlVars>>

ChainProcessStep ==
    /\ \E c \in ChainCalls : DecProcess(c.input, c.output)
    /\ UNCHANGED <<proc, hoaVars, mixVars, genVars, encVars, loadVars, engVars, ctlVars>>

NextChain == ChainMessageStep \/ ChainProcessStep \/ EncProcessStep

SpecChain == Init /\ [][NextChain]_vars

\* The built-in provider: the module is evaluated, if the page is loaded
\* again more than once, between calls of Math.random() by other code.
InitBuiltIn ==
    /\ proc = "builtin"
    /\ DecInit
    /\ EncInit
    /\ LoadInit
    /\ GenInit
    /\ EngInit
    /\ CtlInit
    /\ MixInit
    /\ HoaInit

ModuleLoadStep ==
    /\ ModuleLoad
    /\ UNCHANGED <<proc, hoaVars, mixVars, decVars, encVars, loadVars, engVars, ctlVars>>

GetHRIRDataForWorkletStep ==
    /\ GetHRIRDataForWorklet
    /\ UNCHANGED <<proc, hoaVars, mixVars, decVars, encVars, loadVars, engVars, ctlVars>>

AmbientRandomStep ==
    /\ AmbientRandom
    /\ UNCHANGED <<proc, hoaVars, mixVars, decVars, encVars, loadVars, engVars, ctlVars>>

NextBuiltIn == ModuleLoadStep \/ GetHRIRDataForWorkletStep \/ AmbientRandomStep

SpecBuiltIn == InitBuiltIn /\ [][NextBuiltIn]_vars

\* The mixer in use: the knobs are dragged with the mouse and by touch, the
\* mute switches are clicked, and the engine is initialized and disposed at
\* any moment between two of these.  A move hands over a value between 0
\* and 1.
KnobValues == 0..GridScale

InitMixer ==
    /\ proc = "mixer"
    /\ DecInit
    /\ EncInit
    /\ LoadInit
    /\ GenInit
    /\ EngInit
    /\ CtlInit
    /\ MixInit
    /\ HoaInit

KnobMouseDownStep ==
    /\ HoaHostTurn
    /\ \E index \in 0..(NUM_OBJECTS - 1) : KnobMouseDown(index)
    /\ UNCHANGED <<proc, hoaVars, genVars, decVars, encVars, loadVars, engVars, ctlVars>>

WindowMouseMoveStep ==
    /\ HoaHostTurn
    /\ \E newValues \in [1..NUM_OBJECTS -> KnobValues] : WindowMouseMove(newValues)
    /\ UNCHANGED <<proc, hoaVars, genVars, decVars, encVars, loadVars, engVars, ctlVars>>

WindowMouseUpStep ==
    /\ HoaHostTurn
    /\ WindowMouseUp
    /\ UNCHANGED <<proc, hoaVars, genVars, decVars, encVars, loadVars, engVars, ctlVars>>

KnobTouchStartStep ==
    /\ HoaHostTurn
    /\ \E index \in 0..(NUM_OBJECTS - 1) : KnobTouchStart(index)
    /\ UNCHANGED <<proc, hoaVars, genVars, decVars, encVars, loadVars, engVars, ctlVars>>

KnobTouchMoveStep ==
    /\ HoaHostTurn
    /\ \E index \in 0..(NUM_OBJECTS - 1), newValue \in KnobValues :
          KnobTouchMove(index, newValue)
    /\ UNCHANGED <<proc, hoaVars, genVars, decVars, encVars, loadVars, engVars, ctlVars>>

KnobTouchEndStep ==
    /\ HoaHostTurn
    /\ \E index \in 0..(NUM_OBJECTS - 1) : KnobTouchEnd(index)
    /\ UNCHANGED <<proc, hoaVars, genVars, decVars, encVars, loadVars, engVars, ctlVars>>

MuteToggleStep ==
    /\ HoaHostTurn
    /\ \E index \in 0..(NUM_OBJECTS - 1) : HandleMuteToggle(index)
    /\ UNCHANGED <<proc, hoaVars, genVars, decVars, encVars, loadVars, engVars, ctlVars>>


\* The engine with HRIR selection in use: the two options that are not the
\* one init() loads are selected, and a call is made with an index on either
\* side of the options.
HRIRIndices == {0 - 1, 0, 1, Len(HRIR_OPTIONS)}

InitHoa ==
    /\ proc = "hoa"
    /\ DecInit
    /\ EncInit
    /\ LoadInit
    /\ GenInit
    /\ EngInit
    /\ CtlInit
    /\ MixInit
    /\ HoaInit

HoaInitCallStep ==
    /\ \E suspended \in BOOLEAN : HoaInitCall(suspended)
    /\ UNCHANGED <<proc, appVars, genVars, decVars, encVars, loadVars, engVars, ctlVars>>

HoaResumeStep(i) ==
    /\ \E ok \in BOOLEAN : HoaResumeSettles(i, ok)
    /\ UNCHANGED <<proc, mixVars, genVars, decVars, encVars, loadVars, engVars, ctlVars>>

ChainBuiltStep(i) ==
    /\ ChainBuilt(i)
    /\ UNCHANGED <<proc, mixVars, genVars, decVars, encVars, loadVars, engVars, ctlVars>>

FiltersReturnedStep(i) ==
    /\ FiltersReturned(i)
    /\ UNCHANGED <<proc, mixVars, genVars, decVars, encVars, loadVars, engVars, ctlVars>>

SetHRIRStep ==
    /\ \E hrirIndex \in HRIRIndices : SetHRIRCall(hrirIndex)
    /\ UNCHANGED <<proc, mixVars, genVars, decVars, encVars, loadVars, engVars, ctlVars>>

LoaderCallbackStep(k) ==
    /\ LoaderCallback(k)
    /\ UNCHANGED <<proc, mixVars, genVars, decVars, encVars, loadVars, engVars, ctlVars>>

LoadTimeoutStep(k) ==
    /\ LoadTimeout(k)
    /\ UNCHANGED <<proc, mixVars, genVars, decVars, encVars, loadVars, engVars, ctlVars>>

HoaAssetFetchedStep(i) ==
    /\ \E a \in 1..MaxHoaAssets, ok \in BOOLEAN : HoaAssetFetched(i, a, ok)
    /\ UNCHANGED <<proc, mixVars, genVars, decVars, encVars, loadVars, engVars, ctlVars>>

HoaAssetBufferedStep(i) ==
    /\ \E a \in 1..MaxHoaAssets, ok \in BOOLEAN : HoaAssetBuffered(i, a, ok)
    /\ UNCHANGED <<proc, mixVars, genVars, decVars, encVars, loadVars, engVars, ctlVars>>

HoaAssetDecodedStep(i) ==
    /\ \E a \in 1..MaxHoaAssets, ok \in BOOLEAN : HoaAssetDecoded(i, a, ok)
    /\ UNCHANGED <<proc, mixVars, genVars, decVars, encVars, loadVars, engVars, ctlVars>>

HoaAssetsStoredStep(i) ==
    /\ HoaAssetsStored(i)
    /\ UNCHANGED <<proc, mixVars, genVars, decVars, encVars, loadVars, engVars, ctlVars>>

HoaInitReturnsStep(i) ==
    /\ HoaInitReturns(i)
    /\ UNCHANGED <<proc, mixVars, genVars, decVars, encVars, loadVars, engVars, ctlVars>>

HoaDisposeStep ==
    /\ HoaDispose
    /\ UNCHANGED <<proc, appVars, genVars, decVars, encVars, loadVars, engVars, ctlVars>>

NextHoa ==
    \/ HoaInitCallStep
    \/ SetHRIRStep
    \/ \E k \in 1..MaxHoaLoads : LoaderCallbackStep(k)
    \/ \E k \in 1..MaxHoaLoads : LoadTimeoutStep(k)
    \/ \E i \in 1..MaxHoaInits : HoaResumeStep(i)
    \/ \E i \in 1..MaxHoaInits : ChainBuiltStep(i)
    \/ \E i \in 1..MaxHoaInits : FiltersReturnedStep(i)
    \/ \E i \in 1..MaxHoaInits : HoaAssetFetchedStep(i)
    \/ \E i \in 1..MaxHoaInits : HoaAssetBufferedStep(i)
    \/ \E i \in 1..MaxHoaInits : HoaAssetDecodedStep(i)
    \/ \E i \in 1..MaxHoaInits : HoaAssetsStoredStep(i)
    \/ \E i \in 1..MaxHoaInits : HoaInitReturnsStep(i)
    \/ HoaDisposeStep

SpecHoa == InitHoa /\ [][NextHoa]_vars

\* The mixer's steps, with init() up to its first wait for the host, and
\* dispose().
NextMixer ==
    \/ KnobMouseDownStep
    \/ WindowMouseMoveStep
    \/ WindowMouseUpStep
    \/ KnobTouchStartStep
    \/ KnobTouchMoveStep
    \/ KnobTouchEndStep
    \/ MuteToggleStep
    \/ HoaInitCallStep
    \/ \E i \in 1..MaxHoaInits : ChainBuiltStep(i)
    \/ HoaDisposeStep

SpecMixer == InitMixer /\ [][NextMixer]_vars

\* The grid in use: an object is moved to any position, also one past the
\* grid's edges (in quarters of the grid), and the engine is initialized
\* and disposed at any moment between two moves.
AnyGridPositions == {-1, 0, 1, 2, 3, 4, 5}

InitApp ==
    /\ proc = "app"
    /\ DecInit
    /\ EncInit
    /\ LoadInit
    /\ GenInit
    /\ EngInit
    /\ CtlInit
    /\ MixInit
    /\ HoaInit

HandlePositionChangeStep ==
    /\ HoaHostTurn
    /\ \E index \in 0..(NUM_OBJECTS - 1), x \in AnyGridPositions, y \in AnyGridPositions :
          HandlePositionChange(index, [x |-> x, y |-> y])
    /\ UNCHANGED <<proc, hoaVars, genVars, decVars, encVars, loadVars, engVars, ctlVars>>

NextApp ==
    \/ HandlePositionChangeStep
    \/ HoaInitCallStep
    \/ \E i \in 1..MaxHoaInits : ChainBuiltStep(i)
    \/ HoaDisposeStep

SpecApp == InitApp /\ [][NextApp]_vars

\* ------------------------------------------------------------ properties
\* The decoder's last handler was a process() call that got past both early
\* returns: enough channels, and the flag set.
DecodedCall ==
    /\ decCall.op = "process"
    /\ Len(decCall.input) >= 4
    /\ Len(decCall.output) >= 2
    /\ initialized

\* Every sample of every channel of an output block is the host's silence,
\* never written.
Untouched(out, hostOut) == out = hostOut
AllSilent(out) == \A c \in 1..Len(out) : \A i \in 1..Len(out[c]) : out[c][i].num = 0

\* Every matrix a sample was decoded with, and the filters now installed,
\* have the shape of a DecodeMatrix + HRIRSet pair.
ShapedHistory ==
    /\ Len(hrirData) = NUM_SPEAKERS * 2 * HRIR_LENGTH
    /\ \A m \in 1..Len(decHist) : Len(decHist[m].dm) = NUM_SPEAKERS * 4

\* The reference: sig_s[m] of the m-th decoded sample (m from 1), 0 before
\* the first; speaker s from 0.
RefSig(m, s) ==
    IF m < 1 THEN 0
    ELSE LET f == decHist[m].frame
             d == decHist[m].dm
         IN f[1] * d[4 * s + 1] + f[2] * d[4 * s + 2]
            + f[3] * d[4 * s + 3] + f[4] * d[4 * s + 4]

RECURSIVE SumOver(_, _, _)
SumOver(F(_), lo, hi) == IF lo > hi THEN 0 ELSE F(lo) + SumOver(F, lo + 1, hi)

\* sum over speakers s and taps k of sig_s[m - k] * ear_s[k]; ear 0 = left.
RefFIR(m, ear) ==
    LET PerSpeaker(s) ==
            LET Tap(k) == RefSig(m - k, s)
                          * hrirData[s * 2 * HRIR_LENGTH + ear * HRIR_LENGTH + k + 1]
            IN SumOver(Tap, 0, HRIR_LENGTH - 1)
    IN SumOver(PerSpeaker, 0, NUM_SPEAKERS - 1)

\* The fraction q equals x / NUM_SPEAKERS.
IsEighth(q, x) == q.num * NUM_SPEAKERS = x * q.den

\* C1: while the decoder is uninitialized, a process() call writes nothing to
\* the output block, which stays silent, and leaves the ring buffers and the
\* cursor as they were, whatever the input.
C1_UninitializedPassesSilence ==
    [][ (~initialized /\ decCall'.op = "process")
        => /\ Untouched(decOutput', decCall'.output)
           /\ AllSilent(decOutput')
           /\ speakerBuffers' = speakerBuffers
           /\ bufferIndex' = bufferIndex ]_vars

\* C1's case: an uninitialized decoder was handed a full 4-in/2-out block
\* carrying a non-zero frame.
C1_Witness ==
    /\ ~initialized
    /\ decCall.op = "process"
    /\ Len(decCall.input) = 4 /\ Len(decCall.output) = 2
    /\ \E i \in 1..Len(decCall.input[1]) : decCall.input[1][i] # 0

\* The output block of the last call is the reference FIR of the frames
\* decoded so far, the call's own frames being the last of them.
OutputIsReference ==
    LET n == Len(decCall.input[1])
        N == Len(decHist)
    IN /\ N >= n
       /\ \A i \in 1..n :
             /\ decHist[N - n + i].frame = FramesOf(decCall.input)[i]
             /\ IsEighth(decOutput[1][i], RefFIR(N - n + i, 0))
             /\ IsEighth(decOutput[2][i], RefFIR(N - n + i, 1))

\* C2: a correctly shaped 'setHRIR' message sets the flag at once, and from
\* then on every 4-in/2-out process() call, the first one after the message
\* included, decodes its input block.
C2_ReadyAtOnce ==
    [][ /\ (/\ decCall'.op = "message" /\ decMsgs' = decMsgs + 1
            /\ decCall'.data.type = "setHRIR"
            /\ WellShaped(decCall'.data.hrirData, decCall'.data.decodeMatrix))
           => initialized'
        /\ (/\ initialized
            /\ decCall'.op = "process"
            /\ Len(decCall'.input) >= 4 /\ Len(decCall'.output) >= 2)
           => /\ Len(decHist') = Len(decHist) + Len(decCall'.input[1])
              /\ bufferIndex' = (bufferIndex + Len(decCall'.input[1])) % HRIR_LENGTH
              /\ (ShapedHistory' => OutputIsReference') ]_vars

\* C2's case: the very first message was a correctly shaped 'setHRIR' and
\* the call right after it decoded a non-zero block.
C2_Witness ==
    /\ decMsgs = 1
    /\ DecodedCall
    /\ ShapedHistory
    /\ Len(decHist) = Len(decCall.input[1])
    /\ decOutput[1][1].num # 0

\* C3: once the flag is set no message and no process() call clears it, and
\* a message leaves the ring buffers and the cursor alone.
C3_ReadyIsOneWay ==
    [][ /\ initialized => initialized'
        /\ (initialized /\ decCall'.op = "message" /\ decMsgs' = decMsgs + 1)
           => /\ speakerBuffers' = speakerBuffers
              /\ bufferIndex' = bufferIndex
              /\ decHist' = decHist ]_vars

\* C3's case: a further message, misshapen or of another type, reached a
\* decoder that had already decoded samples.
C3_Witness ==
    /\ initialized
    /\ decMsgs = 2
    /\ decCall.op = "message"
    /\ \/ decCall.data.type # "setHRIR"
       \/ ~WellShaped(decCall.data.hrirData, decCall.data.decodeMatrix)
    /\ Len(decHist) > 0

\* The decoded signal of speaker s (from 0), k samples before the latest.
DecodedAgo(s, k) ==
    LET e == decHist[Len(decHist) - k]
    IN SpeakerSignal(e.dm, s, e.frame[1], e.frame[2], e.frame[3], e.frame[4])

\* C4 as stated: after N >= L samples the entry at (bufferIndex - k) mod L is
\* the signal of k samples ago, the entry at the cursor being the latest.
C4_RingAtCursor ==
    Len(decHist) >= HRIR_LENGTH
    => \A s \in 0..(NUM_SPEAKERS - 1) : \A k \in 0..(HRIR_LENGTH - 1) :
          At(speakerBuffers[s + 1], (bufferIndex - k) % HRIR_LENGTH) = DecodedAgo(s, k)

\* C4 amended: between samples the cursor has already moved on, so the entry
\* at (bufferIndex - 1 - k) mod L is the signal of k samples ago; the entry
\* at the cursor itself is the oldest one, the next to be overwritten.
C4_RingBehindCursor ==
    Len(decHist) >= HRIR_LENGTH
    => \A s \in 0..(NUM_SPEAKERS - 1) : \A k \in 0..(HRIR_LENGTH - 1) :
          At(speakerBuffers[s + 1], (bufferIndex - 1 - k) % HRIR_LENGTH) = DecodedAgo(s, k)

\* C4's case: more than L samples decoded, so the ring has wrapped, and the
\* latest signal differs from the oldest one kept.
C4_Witness ==
    /\ Len(decHist) > HRIR_LENGTH
    /\ DecodedAgo(0, 0) # DecodedAgo(0, HRIR_LENGTH - 1)
    /\ DecodedAgo(0, 0) # NaN

\* C5: the cursor is an integer in [0, L), and so is every index the tap loop
\* computes from it.
C5_CursorInRange ==
    /\ bufferIndex \in 0..(HRIR_LENGTH - 1)
    /\ \A k \in 0..(HRIR_LENGTH - 1) : BufIdx(bufferIndex, k) \in 0..(HRIR_LENGTH - 1)

\* C5's case: the cursor has wrapped back to 0 after L or more samples.
C5_Witness ==
    /\ Len(decHist) >= HRIR_LENGTH
    /\ bufferIndex = 0

\* C6: every output sample of a decoding call is 1/8 of the causal FIR of the
\* speaker signals with the installed filters, the history running across
\* the blocks.
C6_OutputIsCausalFIR ==
    (DecodedCall /\ ShapedHistory) => OutputIsReference

\* C6's case: a second or later block was decoded and its output depends on
\* samples of an earlier block.
C6_Witness ==
    /\ DecodedCall
    /\ ShapedHistory
    /\ Len(decHist) > Len(decCall.input[1])
    /\ \A i \in 1..Len(decCall.input[1]) : decCall.input[1][i] = 0
    /\ decOutput[1][1].num # 0

\* C7: a zero input sample is encoded as the zero frame whatever the smoothed
\* direction; a decoder that has only ever decoded zero frames, or is handed
\* no input at all, emits zero on both ears.
C7_SilencePreserved ==
    /\ (encCall.op = "process" /\ ~EncTooFewChannels(encCall.input, encCall.output))
       => \A i \in 1..Len(encCall.input[1]) :
             encCall.input[1][i] = 0
             => \A c \in 1..4 : encOutput[c][i].amp = 0
    /\ (/\ DecodedCall
        /\ ShapedHistory
        /\ \A m \in 1..Len(decHist) : decHist[m].frame = <<0, 0, 0, 0>>)
       => AllSilent(decOutput)
    /\ (decCall.op = "process" /\ decCall.input = <<>>) => AllSilent(decOutput)

\* C7's case: the encoder, its smoothed direction off zero, encoded a block
\* holding a zero sample.
C7_Witness ==
    /\ encCall.op = "process"
    /\ ~EncTooFewChannels(encCall.input, encCall.output)
    /\ currentAzimuth # 0
    /\ currentElevation # 0
    /\ \E i \in 1..Len(encCall.input[1]) : encCall.input[1][i] = 0

\* C8: a process() call with too few channels writes nothing, returns true
\* and leaves the processor's state as it was.
C8_TooFewChannelsIsNotReady ==
    [][ /\ (decCall'.op = "process" /\ TooFewChannels(decCall'.input, decCall'.output))
           => /\ Untouched(decOutput', decCall'.output)
              /\ AllSilent(decOutput')
              /\ decCall'.returned
              /\ UNCHANGED <<speakerBuffers, bufferIndex, hrirData, decodeMatrix,
                             initialized>>
        /\ (encCall'.op = "process" /\ Len(encCall'.input) >= 1
            /\ Len(encCall'.output) < 4)
           => /\ Untouched(encOutput', encCall'.output)
              /\ \A c \in 1..Len(encOutput') : \A i \in 1..Len(encOutput'[c]) :
                    encOutput'[c][i].amp = 0
              /\ encCall'.returned
              /\ UNCHANGED <<currentAzimuth, currentElevation, targetAzimuth,
                             targetElevation>>
        /\ (encCall'.op = "process" /\ Len(encCall'.input) < 1)
           => /\ Untouched(encOutput', encCall'.output)
              /\ encCall'.returned
              /\ UNCHANGED <<currentAzimuth, currentElevation, targetAzimuth,
                             targetElevation>> ]_vars

\* C8's case: an encoder that has left its initial direction was called with
\* three output channels and new parameter values.
C8_Witness ==
    /\ encCall.op = "process"
    /\ Len(encCall.input) = 1 /\ Len(encCall.output) = 3
    /\ currentAzimuth # 0
    /\ encCall.parameters.azimuth[1] # targetAzimuth

\* Some step of the dataset path of the running call failed: the WASM
\* initialisation, the fetch, the body or the write, the open (error code),
\* the filter length, or a getFilter call.
DatasetPathFailed ==
    \/ loadEnv.init = "failed"
    \/ loadEnv.fetch \in {"rejected", "notOk", "writeFailed"}
    \/ /\ loadEnv.fetch = "ok"
       /\ \/ loadEnv.ds.err # 0
          \/ loadEnv.ds.len <= 0
          \/ loadEnv.ds.failAt \in 0..(NUM_SPEAKERS - 1)

\* The HRIR_LENGTH taps of speaker spk (0-based) and ear (0 left, 1 right) in
\* a flat payload.
Segment(data, spk, ear) ==
    SubSeq(data, spk * 2 * HRIR_LENGTH + ear * HRIR_LENGTH + 1,
                 spk * 2 * HRIR_LENGTH + ear * HRIR_LENGTH + HRIR_LENGTH)

\* Speaker spk's pair in data is the built-in one.
FromBuiltIn(data, spk) ==
    /\ Segment(data, spk, 0) = BUILTIN_HRIRS[spk + 1].left
    /\ Segment(data, spk, 1) = BUILTIN_HRIRS[spk + 1].right

\* Speaker spk's pair in data is the dataset's answer for the speaker's
\* direction, cut or zero-padded to HRIR_LENGTH taps.
FromDataset(data, ds, spk) ==
    LET dir == azimuthToCartesian(SPEAKER_AZIMUTHS[spk + 1])
    IN \A ear \in {0, 1} : \A k \in 1..HRIR_LENGTH :
          Segment(data, spk, ear)[k]
             = IF k <= ds.len THEN SofaTaps(ds, dir, ear)[k] ELSE 0

\* C9: the filter set loadSOFAHRIRs resolves with is never mixed: all the
\* speakers' pairs are the dataset's and the source is 'sofa', or, when any
\* step of the dataset path failed, all are built-in and the source is
\* 'builtin'.
C9_NeverMixed ==
    (loadPc = "done" /\ loadPromise.state = "resolved")
    => LET v == loadPromise.value
       IN IF DatasetPathFailed
             THEN /\ v.source = "builtin"
                  /\ \A spk \in 0..(NUM_SPEAKERS - 1) : FromBuiltIn(v.hrirData, spk)
             ELSE /\ v.source = "sofa"
                  /\ \A spk \in 0..(NUM_SPEAKERS - 1) :
                        FromDataset(v.hrirData, loadEnv.ds, spk)

\* C9's case: the open succeeded and getFilter threw for the last speaker,
\* after the earlier speakers' pairs had been stored.
C9_Witness ==
    /\ loadPc = "done"
    /\ loadEnv.fetch = "ok"
    /\ loadEnv.ds.err = 0
    /\ loadEnv.ds.len > 0
    /\ loadEnv.ds.failAt = NUM_SPEAKERS - 1
    /\ loadPromise.value.source = "builtin"

\* C10: the promise loadSOFAHRIRs returns is never rejected; once the call is
\* over it is resolved with 8 * 2 * L HRIR entries and 8 * 4 matrix entries.
C10_NeverRejects ==
    /\ loadPromise.state # "rejected"
    /\ loadPc \in {"initLibMySofa", "fetch", "arrayBuffer"}
       => loadPromise.state = "pending"
    /\ loadPc = "done"
       => /\ loadPromise.state = "resolved"
          /\ Len(loadPromise.value.hrirData) = NUM_SPEAKERS * 2 * HRIR_LENGTH
          /\ Len(loadPromise.value.decodeMatrix) = NUM_SPEAKERS * 4

\* C10's case: a second call is over in which a step threw or rejected: the
\* fetch, or the open of the dataset.
C10_Witness ==
    /\ loadPc = "done"
    /\ loadCalls = 2
    /\ \/ loadEnv.fetch = "rejected"
       \/ loadEnv.ds.err # 0
    /\ loadPromise.state = "resolved"

\* ------------------------------------------------------- the engine's claims
\* The decoder nodes the started source src feeds: those its gain node's
\* encoder reaches through the bus.
FedDecoders(src) ==
    IF src.gain > Len(gainNodes) \/ gainNodes[src.gain].bus = 0 THEN {}
    ELSE buses[gainNodes[src.gain].bus].decoders

\* The fields init() dereferences after the loader's answer are there
\* whenever the decoder node is.
EngFieldsTogether ==
    binauralDecoder # 0 => audioContext # 0 /\ foaBus # 0

\* C12: initialization precedes audio.  Whenever source nodes have been
\* started, the engine is loaded, and every decoder node a started source
\* feeds has already been posted a 'setHRIR' message; a play() call made
\* while isLoaded is false starts nothing.
C12_InitPrecedesAudio ==
    /\ isPlaying => isLoaded
    /\ \A n \in 1..Len(sourceNodes) :
          sourceNodes[n].started =>
             /\ isPlaying
             /\ \A d \in FedDecoders(sourceNodes[n]) :
                   Len(decoderNodes[d].posted) >= 1
    /\ (engCall.op = "play" /\ ~isLoaded) => sourceNodes = <<>>

\* Sources are playing into a decoder that was sent its filters.
C12_Witness ==
    /\ isPlaying
    /\ Len(sourceNodes) = NUM_OBJECTS
    /\ \A n \in 1..Len(sourceNodes) : FedDecoders(sourceNodes[n]) # {}

\* C11: the HRIR initialization has a bounded fallback.  An init() call that
\* is waiting for the HRIR loader stops waiting in the end, whether or not the
\* dataset's load ever completes, and goes on to send the decoder filters.
C11_LoadWaitIsBounded ==
    \A i \in 1..MaxInits :
        (i <= Len(inits) /\ inits[i].pc = "loadSOFAHRIRs")
            ~> (i <= Len(inits) /\ inits[i].pc # "loadSOFAHRIRs")

\* -------------------------------------------------- the control path's claims
\* C13: last write wins.  At every block start the target the encoder reads
\* is that of the last update written, azimuth and elevation both taken from
\* that same update: the last one whose two parameters were set or, when an
\* update is being written, possibly that one.
C13_TargetIsOneUpdate ==
    [][(blkPc = "idle" /\ blkPc' = "samples")
          => \/ /\ targetAzimuth' = lastLanded.az
                /\ targetElevation' = lastLanded.el
             \/ /\ ctlPc = "elevation"
                /\ targetAzimuth' = ctlUpdate.az
                /\ targetElevation' = ctlUpdate.el]_vars

\* What does hold: at a block start at which no update is half written, the
\* encoder reads the last update written, however many landed before it.
LandedUpdateWins ==
    [][(blkPc = "idle" /\ blkPc' = "samples" /\ ctlPc = "idle")
          => /\ targetAzimuth' = lastLanded.az
             /\ targetElevation' = lastLanded.el]_vars

\* A block has just started after two updates that differ in both angles
\* landed since the block before, and it reads the second.
LandedUpdateWins_Witness ==
    /\ blkPc = "samples" /\ blkI = 0
    /\ ctlPc = "idle" /\ landedSince = <<>>
    /\ Len(blkSeen) >= 2
    /\ blkSeen[1].az # blkSeen[2].az
    /\ blkSeen[1].el # blkSeen[2].el
    /\ targetAzimuth = blkSeen[2].az
    /\ targetElevation = blkSeen[2].el

\* C14: the target is read once per block.  While a block is being
\* processed the target stays what the block read at its start, whatever
\* updates arrive meanwhile, and every sample processed so far was smoothed
\* toward that target and encoded at the smoothed direction.
C14_TargetFixedPerBlock ==
    blkPc = "samples" =>
        /\ targetAzimuth = blkTarget.az
        /\ targetElevation = blkTarget.el
        /\ LET r == EncSampleLoop([az |-> blkStart.az, el |-> blkStart.el,
                                   exact |-> TRUE, out |-> blkStart.out],
                                  0, SubSeq(blkIn, 1, blkI),
                                  blkTarget.az, blkTarget.el)
           IN /\ currentAzimuth = r.az
              /\ currentElevation = r.el
              /\ encOutput = r.out

\* Both samples of a block are done, and an update with another direction
\* landed while the block was running.
C14_Witness ==
    /\ blkPc = "samples" /\ blkI = 2
    /\ landedSince # <<>> /\ ctlPc = "idle"
    /\ foaEncoders[1].azimuth # blkTarget.az
    /\ foaEncoders[1].elevation # blkTarget.el
    /\ targetAzimuth = blkTarget.az

\* On the worklet engine, with the ranges of its own constants, the
\* azimuth set on an encoder node is within [-pi, pi] and the elevation
\* within [-pi/4, pi/4], for any grid position, also one outside [0, 1].
WorkletParamsInRange ==
    /\ \A n \in 1..Len(foaEncoders) :
          /\ foaEncoders[n].azimuth >= 0 - PI /\ foaEncoders[n].azimuth <= PI
          /\ foaEncoders[n].elevation >= 0 - (PI \div 4)
          /\ foaEncoders[n].elevation <= PI \div 4
    /\ ctlUpdate.az >= 0 - PI /\ ctlUpdate.az <= PI
    /\ ctlUpdate.el >= 0 - (PI \div 4) /\ ctlUpdate.el <= PI \div 4

\* An update from a position right of and above the grid has landed, at the
\* right edge's azimuth and the top edge's elevation.
WorkletParamsInRange_Witness ==
    /\ ctlPc = "idle"
    /\ lastLanded.x > GridScale /\ lastLanded.y < 0
    /\ foaEncoders[1].azimuth = degToRad(AZIMUTH_RANGE.max)
    /\ foaEncoders[1].elevation = degToRad(ELEVATION_RANGE.max)

\* C19: every update the UI sends to an encoder is inside the documented
\* range: for any grid position, also one outside [0, 1], the azimuth
\* handed to an encoder is an angle within [-pi, pi] and the elevation one
\* within [-pi/4, pi/4], on the encoder nodes of the worklet engine and on
\* the encoders of the engine App imports.
C19_UpdatesInRange ==
    /\ WorkletParamsInRange
    /\ \A n \in 1..Len(encoders) :
          /\ degToRad(encoders[n].azim) >= 0 - PI
          /\ degToRad(encoders[n].azim) <= PI
          /\ degToRad(encoders[n].elev) >= 0 - (PI \div 4)
          /\ degToRad(encoders[n].elev) <= PI \div 4

\* With the constants App imports the azimuth stays within the full circle
\* and the elevation within the half sphere, and the top edge of the grid
\* is straight up.
HoaEncodersInRange ==
    \A n \in 1..Len(encoders) :
       /\ encoders[n].azim >= -180 /\ encoders[n].azim <= 180
       /\ encoders[n].elev >= -90 /\ encoders[n].elev <= 90

\* C15: the decode matrix and the filters are written once per decoder.  No
\* decoder node the engine creates is ever posted more than one 'setHRIR'
\* message, and a decoder node that has been connected to a bus has been
\* posted exactly one, also after dispose() and a new init().
C15_WrittenOncePerDecoder ==
    /\ \A d \in 1..Len(decoderNodes) : Len(decoderNodes[d].posted) <= 1
    /\ \A b \in 1..Len(buses) : \A d \in buses[b].decoders :
          Len(decoderNodes[d].posted) = 1

\* The other half of C15, which holds: no process() call of the decoder
\* changes hrirData or decodeMatrix.
ProcessKeepsFilters ==
    [][decCall'.op = "process"
          => hrirData' = hrirData /\ decodeMatrix' = decodeMatrix]_vars

\* ------------------------------------------------------ the payload's claims
\* Impulse responses of up to HRIR_LENGTH + 1 taps.
TapSeqs == UNION {[1..n -> {1, 2}] : n \in 0..(HRIR_LENGTH + 1)}

\* C16: trim/pad adaptation.  normalizeHRIRLength(h, L) has exactly L
\* elements, element i being h[i] where h has one and 0 after the end of h,
\* and is h itself when h has L elements; in what loadSOFAHRIRs resolves with
\* from a dataset, every speaker's response is the dataset's cut or padded
\* this way, and no tap of the dataset beyond the first HRIR_LENGTH is in it.
C16_TrimPad ==
    /\ \A h \in TapSeqs : \A L \in 0..(HRIR_LENGTH + 1) :
          LET r == normalizeHRIRLength(h, L)
          IN /\ Len(r) = L
             /\ \A i \in 1..L : r[i] = IF i <= Len(h) THEN h[i] ELSE 0
             /\ Len(h) = L => r = h
    /\ (loadPc = "done" /\ loadPromise.state = "resolved"
           /\ loadPromise.value.source = "sofa")
       => LET data == loadPromise.value.hrirData
              ds == loadEnv.ds
          IN /\ Len(data) = NUM_SPEAKERS * 2 * HRIR_LENGTH
             /\ \A spk \in 0..(NUM_SPEAKERS - 1) : \A ear \in {0, 1} :
                   LET h == SofaTaps(ds, azimuthToCartesian(SPEAKER_AZIMUTHS[spk + 1]), ear)
                       seg == Segment(data, spk, ear)
                   IN /\ \A k \in 1..HRIR_LENGTH :
                            seg[k] = IF k <= Len(h) THEN h[k] ELSE 0
                      /\ \A k \in (HRIR_LENGTH + 1)..Len(h) :
                            \A i \in 1..Len(data) : data[i] # h[k]

\* A dataset with one tap more than HRIR_LENGTH was loaded, and its
\* responses were cut.
C16_Witness ==
    /\ loadPc = "done"
    /\ loadPromise.state = "resolved"
    /\ loadPromise.value.source = "sofa"
    /\ loadEnv.ds.len = HRIR_LENGTH + 1
    /\ Len(loadPromise.value.hrirData) = NUM_SPEAKERS * 2 * HRIR_LENGTH

\* Tap k (from 0) of the response of speaker s (from 0) and ear (0 left,
\* 1 right) as the producer src holds it before it is laid out flat.
ProducerTap(src, s, ear, k) ==
    IF src.kind = "builtin"
       THEN IF ear = 0 THEN BUILTIN_HRIRS[s + 1].left[k + 1]
                       ELSE BUILTIN_HRIRS[s + 1].right[k + 1]
       ELSE LET h == SofaTaps(src.ds, azimuthToCartesian(SPEAKER_AZIMUTHS[s + 1]), ear)
            IN IF k + 1 <= Len(h) THEN h[k + 1] ELSE 0

\* The decode coefficients of speaker s by the letter of the FOA channel.
ProducerRow(s) ==
    [W |-> 707, Y |-> SinDeg(SPEAKER_AZIMUTHS[s + 1]), Z |-> 0,
     X |-> CosDeg(SPEAKER_AZIMUTHS[s + 1])]

\* The signal of speaker s for the m-th decoded frame, the frame's channels
\* 0..3 taken as W, Y, Z, X; 0 before the first frame.
LetterSig(m, s) ==
    IF m < 1 THEN 0
    ELSE LET f == decHist[m].frame
             r == ProducerRow(s)
         IN r.W * f[1] + r.Y * f[2] + r.Z * f[3] + r.X * f[4]

\* The producer whose payload the decoder holds.
InstalledSource == CHOOSE src \in ChainSources : ChainPayload(src).hrirData = hrirData

\* The output of ear for the m-th decoded frame, from the producer's own
\* responses and coefficients.
ProducerFIR(src, m, ear) ==
    LET PerSpeaker(s) ==
            LET Tap(k) == LetterSig(m - k, s) * ProducerTap(src, s, ear, k)
            IN SumOver(Tap, 0, HRIR_LENGTH - 1)
    IN SumOver(PerSpeaker, 0, NUM_SPEAKERS - 1)

\* C17: the payload's layout agrees between its producers and the decoder.
\* In the payload of either producer, speaker s's left tap k is at s*2L + k,
\* its right tap k at s*2L + L + k, and its coefficients for W, Y, Z, X at
\* 4s + 0..3; and a decoder that was sent such a payload filters speaker s's
\* signal with exactly these taps and coefficients.
C17_LayoutAgrees ==
    /\ \A src \in ChainSources : \A s \in 0..(NUM_SPEAKERS - 1) :
          LET p == ChainPayload(src)
          IN /\ \A k \in 0..(HRIR_LENGTH - 1) :
                   /\ At(p.hrirData, s * 2 * HRIR_LENGTH + k) = ProducerTap(src, s, 0, k)
                   /\ At(p.hrirData, s * 2 * HRIR_LENGTH + HRIR_LENGTH + k)
                         = ProducerTap(src, s, 1, k)
             /\ At(p.decodeMatrix, 4 * s + 0) = ProducerRow(s).W
             /\ At(p.decodeMatrix, 4 * s + 1) = ProducerRow(s).Y
             /\ At(p.decodeMatrix, 4 * s + 2) = ProducerRow(s).Z
             /\ At(p.decodeMatrix, 4 * s + 3) = ProducerRow(s).X
    /\ (proc = "foa-binaural-decoder" /\ DecodedCall)
       => LET n == Len(decCall.input[1])
              N == Len(decHist)
          IN \A i \in 1..n : \A ear \in {0, 1} :
                IsEighth(decOutput[ear + 1][i],
                         ProducerFIR(InstalledSource, N - n + i, ear))

\* A decoder holding the payload extracted from a dataset with short filters
\* has decoded two blocks, and the left and the right output differ.
C17_Witness ==
    /\ proc = "foa-binaural-decoder"
    /\ DecodedCall
    /\ InstalledSource.kind = "sofa"
    /\ InstalledSource.ds.len < HRIR_LENGTH
    /\ Len(decHist) > Len(decCall.input[1])
    /\ decOutput[1][1].num # 0
    /\ decOutput[1][1] # decOutput[2][1]

\* C18: the channel order is W, Y, Z, X end to end.  The encoder writes the
\* omnidirectional term to output channel 0, the cos(el) sin(az) term to 1,
\* the sin(el) term to 2 and the cos(el) cos(az) term to 3; the decoder
\* multiplies input channel 0 by the W coefficient of the speaker, 1 by Y,
\* 2 by Z and 3 by X.
C18_ChannelOrder ==
    /\ (proc = "foa-encoder" /\ encCall.op = "process"
           /\ ~EncTooFewChannels(encCall.input, encCall.output))
       => \A i \in 1..Len(encCall.input[1]) :
             LET s == encCall.input[1][i]
                 Fns(c) == [j \in 1..Len(encOutput[c][i].factors) |->
                               encOutput[c][i].factors[j].fn]
             IN /\ \A c \in 1..4 : encOutput[c][i].amp = s
                /\ s # 0 => /\ Fns(1) = <<"SQRT1_2">>
                            /\ Fns(2) = <<"cos", "sin">>
                            /\ Fns(3) = <<"sin">>
                            /\ Fns(4) = <<"cos", "cos">>
                /\ (s # 0 /\ i = Len(encCall.input[1]))
                      => /\ encOutput[2][i].factors
                               = <<Cos(currentElevation), Sin(currentAzimuth)>>
                         /\ encOutput[3][i].factors = <<Sin(currentElevation)>>
                         /\ encOutput[4][i].factors
                               = <<Cos(currentElevation), Cos(currentAzimuth)>>
    /\ (proc = "foa-binaural-decoder" /\ DecodedCall)
       => \A s \in 0..(NUM_SPEAKERS - 1) :
             At(speakerBuffers[s + 1], (bufferIndex - 1) % HRIR_LENGTH)
                = LetterSig(Len(decHist), s)

\* The decoder has just decoded a frame that carries Y alone, which reaches
\* the speaker at 45 degrees and not the one straight ahead.
C18_Witness ==
    /\ proc = "foa-binaural-decoder"
    /\ DecodedCall
    /\ decHist[Len(decHist)].frame = <<0, 1, 0, 0>>
    /\ At(speakerBuffers[1], (bufferIndex - 1) % HRIR_LENGTH) = 0
    /\ At(speakerBuffers[2], (bufferIndex - 1) % HRIR_LENGTH) = 707

\* ---------------------------------------------- the built-in provider's claims
\* The numbers the dither of an HRIR set was drawn from, in the order of the
\* draws: speaker by speaker, tap by tap, left before right.
RECURSIVE DrawsOf(_, _, _)
DrawsOf(hrirs, spk, i) ==
    IF spk > Len(hrirs) THEN <<>>
    ELSE IF i > HRIR_LENGTH THEN DrawsOf(hrirs, spk + 1, 1)
    ELSE LET Drawn(tap) == IF tap.rnd = NoDraw THEN <<>> ELSE <<tap.rnd>>
         IN Drawn(hrirs[spk].left[i]) \o Drawn(hrirs[spk].right[i])
               \o DrawsOf(hrirs, spk, i + 1)

\* The first n numbers of the generator seeded with seed.
RECURSIVE SeedSequence(_, _)
SeedSequence(seed, n) ==
    IF n = 0 THEN <<>>
    ELSE Bind(LAMBDA next : <<next>> \o SeedSequence(next, n - 1), seededRandom_seed(seed))

\* C20: the built-in provider is deterministic.  Every evaluation of the
\* module yields the same BUILTIN_HRIRS, whatever the state of the browser's
\* own generator was; the dither is drawn from the generator seeded with
\* 12345; every call of getHRIRDataForWorklet returns the same values; and
\* Math.random is the original function after the generation.
C20_BuiltInDeterministic ==
    /\ mathRandom = OriginalRandom
    /\ \A i, j \in 1..Len(modules) : modules[i].BUILTIN_HRIRS = modules[j].BUILTIN_HRIRS
    /\ \A i \in 1..Len(modules) :
          LET draws == DrawsOf(modules[i].BUILTIN_HRIRS, 1, 1)
          IN /\ Len(draws) > 0
             /\ draws = SeedSequence(12345, Len(draws))
    /\ \A i, j \in 1..Len(returned) : returned[i].data = returned[j].data
    /\ \A i \in 1..Len(returned) : \A s \in 0..(NUM_SPEAKERS - 1) :
          \A k \in 0..(HRIR_LENGTH - 1) :
             /\ At(returned[i].data, s * 2 * HRIR_LENGTH + k)
                   = modules[returned[i].module].BUILTIN_HRIRS[s + 1].left[k + 1]
             /\ At(returned[i].data, s * 2 * HRIR_LENGTH + HRIR_LENGTH + k)
                   = modules[returned[i].module].BUILTIN_HRIRS[s + 1].right[k + 1]

\* The module was evaluated twice, with the browser's generator in different
\* states, and getHRIRDataForWorklet was called after each evaluation.
C20_Witness ==
    /\ Len(modules) = 2
    /\ modules[1].ambientAtLoad # modules[2].ambientAtLoad
    /\ Len(returned) = 2
    /\ returned[1].module # returned[2].module
    /\ returned[1].data[2].rnd = 1406932606

\* ------------------------------------------------- the last claims: loader
\* C23: every handle api.open returned is closed by the time loadSOFAHRIRs
\* has resolved, on every path.
C23_HandleClosedOnEveryPath ==
    (loadPc = "done" /\ loadPromise.state = "resolved") => sofaHandle # "open"

\* The paths that do close: whenever the promise resolved with the
\* dataset's filters, or the filter length was not positive, the handle
\* was closed, once, after its last use.
ClosedWhereTheCodeCloses ==
    (loadPc = "done" /\ loadEnv.fetch = "ok" /\ loadEnv.ds.err = 0
        /\ (loadEnv.ds.len <= 0 \/ loadEnv.ds.failAt = -1))
       => sofaHandle = "closed"

\* ----------------------------------------------- the last claims: encoder
\* The smoothed angle after n more samples toward tgt, alpha being 1/500.
RECURSIVE SmoothedAfter(_, _, _)
SmoothedAfter(cur, tgt, n) ==
    IF n = 0 THEN cur
    ELSE SmoothedAfter(cur + (tgt - cur) \div 500, tgt, n - 1)

\* C22: for every processed sample the encoder first moves currentAzimuth
\* and currentElevation one smoothing step (alpha = 0.002) toward their own
\* targets and then encodes the sample with the moved values, never with the
\* raw target; a state that equals its target stays where it is.
C22_SmoothThenEncode ==
    [][ (proc = "foa-encoder" /\ encSamples' # encSamples)
          => LET input == encCall'.input[1]
                 tAz == encCall'.parameters.azimuth[1]
                 tEl == encCall'.parameters.elevation[1]
                 Az(i) == SmoothedAfter(currentAzimuth, tAz, i)
                 El(i) == SmoothedAfter(currentElevation, tEl, i)
             IN /\ currentAzimuth' = Az(Len(input))
                /\ currentElevation' = El(Len(input))
                /\ currentAzimuth = tAz => currentAzimuth' = currentAzimuth
                /\ currentElevation = tEl => currentElevation' = currentElevation
                /\ \A i \in 1..Len(input) :
                      input[i] # 0
                         => /\ encOutput'[2][i].factors = <<Cos(El(i)), Sin(Az(i))>>
                            /\ encOutput'[3][i].factors = <<Sin(El(i))>>
                            /\ encOutput'[4][i].factors = <<Cos(El(i)), Cos(Az(i))>>
      ]_vars

\* The encoder has encoded a sample on its way to a target it has not
\* reached, in azimuth alone: the elevation rests at its target.
C22_Witness ==
    /\ proc = "foa-encoder"
    /\ encCall.op = "process"
    /\ encSamples > 0
    /\ currentAzimuth # 0
    /\ currentAzimuth # targetAzimuth
    /\ currentElevation = targetElevation
    /\ \E i \in 1..Len(encOutput[2]) : encOutput[2][i].amp # 0

\* ----------------------------------------------- the last claims: decoder
\* C30: whenever the decoder decodes, the arrays installed by the last
\* 'setHRIR' message hold every index process() reads: s * 2L + k and
\* s * 2L + L + k of hrirData and 4s + 0..3 of decodeMatrix, so that no
\* output sample is computed from an undefined coefficient.  The messages
\* are those the decoder can receive: the ones init() posts, built from what
\* loadSOFAHRIRs resolved with, whichever producer filled it.
C30_ReadsInBounds ==
    DecodedCall
       => /\ Len(hrirData) >= NUM_SPEAKERS * 2 * HRIR_LENGTH
          /\ Len(decodeMatrix) >= NUM_SPEAKERS * 4
          /\ \A c \in 1..2 : \A i \in 1..Len(decOutput[c]) : decOutput[c][i].num # NaN

\* The decoder has decoded a whole ring of frames, the last taps of the
\* last speaker included, with the padded filters of a short dataset.
C30_Witness ==
    /\ DecodedCall
    /\ hrirData # getHRIRDataForWorklet
    /\ Len(hrirData) = NUM_SPEAKERS * 2 * HRIR_LENGTH
    /\ hrirData[Len(hrirData)] = 0
    /\ Len(decHist) >= HRIR_LENGTH
    /\ decOutput[2][Len(decOutput[2])].num # 0
    /\ decOutput[2][Len(decOutput[2])].num # NaN

\* ------------------------------------------------ the last claims: mixer
\* C24: the engine gain of every object is what the mixer shows for it: 0
\* when muted, else the gain last set, clamped to [0, 1].
C24_EngineGainIsMixerGain ==
    \A i \in 0..(Len(gainParams) - 1) : gainParams[i + 1] = Clamp01(KnobValue(i))

\* No operation on one object changes the engine gain of another: while
\* the chain stands, the gain of an object changes only with its own mute
\* switch, or while its own knob has a drag or a listener.
OtherGainsUntouched ==
    [][ Len(gainParams') = Len(gainParams) =>
           \A j \in 1..Len(gainParams) :
              gainParams'[j] # gainParams[j] =>
                 \/ muted'[j] # muted[j]
                 \/ (j - 1) \in isDragging \cup mouseListeners
      ]_vars

\* ----------------------------------------------- the last claims: engine
\* The engine is disposed and was not initialized again, and the step is the
\* continuation of a pending init().
StaleInitStep(i) ==
    /\ audioContext = 0
    /\ Len(inits') = Len(inits)
    /\ i \in 1..Len(inits)
    /\ inits'[i] # inits[i]

\* C27: after dispose(), the remainder of a pending init() does not
\* dereference the nulled decoder, creates no node and does not set isLoaded.
C27_NoContinuationTouchesDisposed ==
    [][ \A i \in 1..MaxInits :
           StaleInitStep(i) =>
              /\ inits[i].pc = "loadSOFAHRIRs" => ~engCall'.threw
              /\ isLoaded' = isLoaded
              /\ UNCHANGED <<buses, decoderNodes, gainNodes, foaEncoders, masterGain>>
      ]_vars

\* What does hold: a stale continuation creates no node on the disposed
\* engine and leaves it not playing.
StaleInitCreatesNothing ==
    [][ \A i \in 1..MaxInits :
           StaleInitStep(i) =>
              /\ UNCHANGED <<buses, decoderNodes, gainNodes, foaEncoders, masterGain,
                             sourceNodes, isPlaying>>
      ]_vars

\* C28: after an init() that failed part-way, a later init() call starts the
\* initialization again while the engine is not loaded.
C28_FailedInitCanBeRetried ==
    [][ ( /\ Len(inits') = Len(inits) + 1
          /\ \E i \in 1..Len(inits) : inits[i].pc = "rejected"
          /\ ~isLoaded )
        => inits'[Len(inits')].pc = "addEncoderModule"
      ]_vars

\* What does hold: init() on an engine without a context always starts the
\* initialization.
InitWithoutContextStarts ==
    [][ (Len(inits') = Len(inits) + 1 /\ audioContext = 0)
        => (inits'[Len(inits')].pc = "addEncoderModule" /\ audioContext' # 0)
      ]_vars

\* The engine's fields, the record of the last call aside.
EngFields == <<audioContext, ctxs, foaBus, buses, binauralDecoder, decoderNodes,
               masterGain, gainNodes, foaEncoders, audioBuffers, sourceNodes,
               isPlaying, isLoaded, workletReady, inits, disposes>>

SourcesMatchPlaying ==
    /\ isPlaying <=> sourceNodes # <<>>
    /\ isPlaying =>
          /\ Len(sourceNodes) = NUM_OBJECTS
          /\ \A n \in 1..Len(sourceNodes) :
                /\ sourceNodes[n].gain = n
                /\ n <= Len(gainNodes)
                /\ sourceNodes[n].buffer = audioBuffers[n]
                /\ sourceNodes[n].started

\* A disposed engine, not initialized again, is neither playing nor ready.
DisposedIsIdle == audioContext = 0 => (~isPlaying /\ ~(isLoaded /\ workletReady))

PlayStopDisposeEffects ==
    /\ (engCall'.op = "play" /\ (isPlaying \/ ~isLoaded)) => UNCHANGED EngFields
    /\ (engCall'.op = "stop" /\ ~isPlaying) => UNCHANGED EngFields
    /\ disposes' = disposes + 1 =>
          (~isPlaying' /\ sourceNodes' = <<>> /\ ~(isLoaded' /\ workletReady'))

\* C29: isPlaying holds exactly when source nodes exist, and then there are
\* NUM_OBJECTS of them, source n connected to gain node n; play() when playing
\* or not loaded and stop() when not playing change nothing; after dispose()
\* the engine is neither playing nor ready.
C29_PlayingIffSourcesExist ==
    /\ []SourcesMatchPlaying
    /\ []DisposedIsIdle
    /\ [][PlayStopDisposeEffects]_vars

\* What does hold: all of it but that the disposed engine stays not ready.
SourcesFollowPlayAndStop == []SourcesMatchPlaying /\ [][PlayStopDisposeEffects]_vars

\* ------------------------------------- the last claims: HRIR selection
\* C25: filtersLoaded holds only when the most recently requested set was
\* applied to the decoder or that request's own timer has expired.
C25_LoadedMeansLatestRequest ==
    filtersLoaded =>
        /\ hoaLoads # <<>>
        /\ \/ hoaLoads[Len(hoaLoads)].callback = "applied"
           \/ hoaLoads[Len(hoaLoads)].timer = "expired"

\* What does hold: filtersLoaded is set only after some load's callback
\* applied its filters or some timer expired.
LoadedMeansSomeRequest ==
    filtersLoaded =>
        \E k \in 1..Len(hoaLoads) :
            hoaLoads[k].callback = "applied" \/ hoaLoads[k].timer = "expired"

\* C26: once every load's callback has run, the decoder holds the filters of
\* the option named by currentHRIRIndex.
C26_DecoderHoldsLastRequested ==
    ( /\ decoder # 0
      /\ hoaLoads # <<>>
      /\ \A k \in 1..Len(hoaLoads) : hoaLoads[k].callback = "applied" )
    => binDecoders[decoder] = currentHRIRIndex

\* What does hold: the decoder holds its default filters or those of an
\* option that was requested.
DecoderHoldsARequestedOption ==
    decoder # 0 =>
        \/ binDecoders[decoder] = DefaultFilters
        \/ \E k \in 1..Len(hoaLoads) :
              hoaLoads[k].callback = "applied" /\ hoaLoads[k].option = binDecoders[decoder]

\* After dispose(), a late loader callback or timer neither throws on the
\* nulled decoder nor sets filtersLoaded (the part of C27 about this engine).
C27_LateCallbackOnDisposed ==
    [][ (decoder = 0 /\ hoaLoads' # hoaLoads /\ Len(hoaLoads') = Len(hoaLoads))
        => (~hoaCall'.threw /\ filtersLoaded' = filtersLoaded)
      ]_vars

\* The same for the engine with HRIR selection (the part of C29 about it).
HoaDisposedIsIdle == decoder = 0 => ~HoaReady

====
